---------------------------- MODULE Spec2Model ----------------------------
(***************************************************************************)
(* A model of smartctl_exporter (src/smartctl_exporter.go).                *)
(*                                                                         *)
(* Go strings are modelled as sequences of one-character strings, so that  *)
(* concatenation, replacement, case folding and pattern matching are       *)
(* computed character by character as the Go library does.  float64 values *)
(* are modelled by integers.  A decoded JSON value is a record [t, v] with *)
(* t the kind of the value.                                                *)
(***************************************************************************)
EXTENDS Integers, Sequences, FiniteSets, TLC

VARIABLES
    \* ---- the running exporter (main, collect) ----
    devices,      \* the device registry: registry key -> Device (line 43)
    metrics,      \* metric name -> [help, vals: label tuple -> value] (line 44)
    mutex,        \* 0 when free, else the pass that holds it (line 49)
    mainPc,       \* where the main goroutine stands in its loop (lines 573-576)
    inCollect,    \* the passes inside collect(): pass -> its frame
    todo,         \* devices the running pass has still to visit (line 235)
    passNo,       \* number of passes started so far
    tickerC,      \* the ticker's channel: the ticks buffered in it (line 570)
    fired,        \* number of ticks the ticker has fired so far
    hist,         \* observations about the run (no program state)
    \* ---- one call of a function under examination ----
    call          \* [op, in, out, done]: the input drawn and the value returned

vars == << devices, metrics, mutex, mainPc, inCollect, todo, passNo,
           tickerC, fired, hist, call >>

progVars == << devices, metrics, mutex, mainPc, inCollect, todo, passNo,
               tickerC, fired, hist >>

-----------------------------------------------------------------------------
(* Strings *)

Str_ == <<"_">>

\* "smartctl_", the namespace tag of line 257
S_smartctl_ == <<"s","m","a","r","t","c","t","l","_">>

\* the other string literals of the program and of the tool's JSON
S_json_format_version ==
    <<"j","s","o","n","_","f","o","r","m","a","t","_","v","e","r","s","i",
      "o","n">>
S_smartctl == <<"s","m","a","r","t","c","t","l">>
S_device == <<"d","e","v","i","c","e">>
S_protocol == <<"p","r","o","t","o","c","o","l">>
S_smart_status == <<"s","m","a","r","t","_","s","t","a","t","u","s">>
S_passed == <<"p","a","s","s","e","d">>
S_smart_passed == <<"s","m","a","r","t","_","p","a","s","s","e","d">>
S_ata_smart_attributes ==
    <<"a","t","a","_","s","m","a","r","t","_","a","t","t","r","i","b","u",
      "t","e","s">>
S_table == <<"t","a","b","l","e">>
S_name == <<"n","a","m","e">>
S_value == <<"v","a","l","u","e">>
S_raw == <<"r","a","w">>
S_string == <<"s","t","r","i","n","g">>
S_id == <<"i","d">>
S_nvme_smart_health_information_log ==
    <<"n","v","m","e","_","s","m","a","r","t","_","h","e","a","l","t","h",
      "_","i","n","f","o","r","m","a","t","i","o","n","_","l","o","g">>
S_temperature == <<"t","e","m","p","e","r","a","t","u","r","e">>
S_current == <<"c","u","r","r","e","n","t">>
S_exit_status == <<"e","x","i","t","_","s","t","a","t","u","s">>
S_version == <<"v","e","r","s","i","o","n">>
S_scsi_grown_defect_list ==
    <<"s","c","s","i","_","g","r","o","w","n","_","d","e","f","e","c","t",
      "_","l","i","s","t">>
S_scsi_error_counter_log ==
    <<"s","c","s","i","_","e","r","r","o","r","_","c","o","u","n","t","e",
      "r","_","l","o","g">>
S_ATA == <<"A","T","A">>
S_SCSI == <<"S","C","S","I">>
S_NVMe == <<"N","V","M","e">>
S_critical_warning ==
    <<"c","r","i","t","i","c","a","l","_","w","a","r","n","i","n","g">>
S_Reallocated_Sector_Ct ==
    <<"R","e","a","l","l","o","c","a","t","e","d","_","S","e","c","t","o",
      "r","_","C","t">>
S_Temperature_Celsius ==
    <<"T","e","m","p","e","r","a","t","u","r","e","_","C","e","l","s","i",
      "u","s">>
S_model_family == <<"m","o","d","e","l","_","f","a","m","i","l","y">>
S_model_name == <<"m","o","d","e","l","_","n","a","m","e">>
S_serial_number == <<"s","e","r","i","a","l","_","n","u","m","b","e","r">>
S_user_capacity == <<"u","s","e","r","_","c","a","p","a","c","i","t","y">>
S_bytes == <<"b","y","t","e","s">>
S_scsi_model_name ==
    <<"s","c","s","i","_","m","o","d","e","l","_","n","a","m","e">>
S_devices == <<"d","e","v","i","c","e","s">>
S_type == <<"t","y","p","e">>
S_open_error == <<"o","p","e","n","_","e","r","r","o","r">>
S_unknown == <<"u","n","k","n","o","w","n">>
S_sat == <<"s","a","t">>
S_nvme == <<"n","v","m","e">>
S_scsi == <<"s","c","s","i">>

UpperCase == <<"A","B","C","D","E","F","G","H","I","J","K","L","M",
               "N","O","P","Q","R","S","T","U","V","W","X","Y","Z">>
LowerCase == <<"a","b","c","d","e","f","g","h","i","j","k","l","m",
               "n","o","p","q","r","s","t","u","v","w","x","y","z">>

\* lower-casing of an ASCII capital, every other character unchanged: the
\* letter strconv compares with after its lower (c | 0x20) and in its
\* commonPrefixLenIgnoreCase
lower(c) ==
    IF \E i \in 1..Len(UpperCase) : UpperCase[i] = c
    THEN LowerCase[CHOOSE i \in 1..Len(UpperCase) : UpperCase[i] = c]
    ELSE c

\* The characters outside ASCII that unicode.ToLower changes (the simple
\* lower-case mappings of Unicode 13.0.0), and at the same index what it
\* changes each to.  A character a TLA+ string cannot hold is written by
\* the name of its code point.
UnicodeUpper ==
    << "U+00C0", "U+00C1", "U+00C2", "U+00C3", "U+00C4", "U+00C5", "U+00C6",
       "U+00C7", "U+00C8", "U+00C9", "U+00CA", "U+00CB", "U+00CC", "U+00CD",
       "U+00CE", "U+00CF", "U+00D0", "U+00D1", "U+00D2", "U+00D3", "U+00D4",
       "U+00D5", "U+00D6", "U+00D8", "U+00D9", "U+00DA", "U+00DB", "U+00DC",
       "U+00DD", "U+00DE", "U+0100", "U+0102", "U+0104", "U+0106", "U+0108",
       "U+010A", "U+010C", "U+010E", "U+0110", "U+0112", "U+0114", "U+0116",
       "U+0118", "U+011A", "U+011C", "U+011E", "U+0120", "U+0122", "U+0124",
       "U+0126", "U+0128", "U+012A", "U+012C", "U+012E", "U+0130", "U+0132",
       "U+0134", "U+0136", "U+0139", "U+013B", "U+013D", "U+013F", "U+0141",
       "U+0143", "U+0145", "U+0147", "U+014A", "U+014C", "U+014E", "U+0150",
       "U+0152", "U+0154", "U+0156", "U+0158", "U+015A", "U+015C", "U+015E",
       "U+0160", "U+0162", "U+0164", "U+0166", "U+0168", "U+016A", "U+016C",
       "U+016E", "U+0170", "U+0172", "U+0174", "U+0176", "U+0178", "U+0179",
       "U+017B", "U+017D", "U+0181", "U+0182", "U+0184", "U+0186", "U+0187",
       "U+0189", "U+018A", "U+018B", "U+018E", "U+018F", "U+0190", "U+0191",
       "U+0193", "U+0194", "U+0196", "U+0197", "U+0198", "U+019C", "U+019D",
       "U+019F", "U+01A0", "U+01A2", "U+01A4", "U+01A6", "U+01A7", "U+01A9",
       "U+01AC", "U+01AE", "U+01AF", "U+01B1", "U+01B2", "U+01B3", "U+01B5",
       "U+01B7", "U+01B8", "U+01BC", "U+01C4", "U+01C5", "U+01C7", "U+01C8",
       "U+01CA", "U+01CB", "U+01CD", "U+01CF", "U+01D1", "U+01D3", "U+01D5",
       "U+01D7", "U+01D9", "U+01DB", "U+01DE", "U+01E0", "U+01E2", "U+01E4",
       "U+01E6", "U+01E8", "U+01EA", "U+01EC", "U+01EE", "U+01F1", "U+01F2",
       "U+01F4", "U+01F6", "U+01F7", "U+01F8", "U+01FA", "U+01FC", "U+01FE",
       "U+0200", "U+0202", "U+0204", "U+0206", "U+0208", "U+020A", "U+020C",
       "U+020E", "U+0210", "U+0212", "U+0214", "U+0216", "U+0218", "U+021A",
       "U+021C", "U+021E", "U+0220", "U+0222", "U+0224", "U+0226", "U+0228",
       "U+022A", "U+022C", "U+022E", "U+0230", "U+0232", "U+023A", "U+023B",
       "U+023D", "U+023E", "U+0241", "U+0243", "U+0244", "U+0245", "U+0246",
       "U+0248", "U+024A", "U+024C", "U+024E", "U+0370", "U+0372", "U+0376",
       "U+037F", "U+0386", "U+0388", "U+0389", "U+038A", "U+038C", "U+038E",
       "U+038F", "U+0391", "U+0392", "U+0393", "U+0394", "U+0395", "U+0396",
       "U+0397", "U+0398", "U+0399", "U+039A", "U+039B", "U+039C", "U+039D",
       "U+039E", "U+039F", "U+03A0", "U+03A1", "U+03A3", "U+03A4", "U+03A5",
       "U+03A6", "U+03A7", "U+03A8", "U+03A9", "U+03AA", "U+03AB", "U+03CF",
       "U+03D8", "U+03DA", "U+03DC", "U+03DE", "U+03E0", "U+03E2", "U+03E4",
       "U+03E6", "U+03E8", "U+03EA", "U+03EC", "U+03EE", "U+03F4", "U+03F7",
       "U+03F9", "U+03FA", "U+03FD", "U+03FE", "U+03FF", "U+0400", "U+0401",
       "U+0402", "U+0403", "U+0404", "U+0405", "U+0406", "U+0407", "U+0408",
       "U+0409", "U+040A", "U+040B", "U+040C", "U+040D", "U+040E", "U+040F",
       "U+0410", "U+0411", "U+0412", "U+0413", "U+0414", "U+0415", "U+0416",
       "U+0417", "U+0418", "U+0419", "U+041A", "U+041B", "U+041C", "U+041D",
       "U+041E", "U+041F", "U+0420", "U+0421", "U+0422", "U+0423", "U+0424",
       "U+0425", "U+0426", "U+0427", "U+0428", "U+0429", "U+042A", "U+042B",
       "U+042C", "U+042D", "U+042E", "U+042F", "U+0460", "U+0462", "U+0464",
       "U+0466", "U+0468", "U+046A", "U+046C", "U+046E", "U+0470", "U+0472",
       "U+0474", "U+0476", "U+0478", "U+047A", "U+047C", "U+047E", "U+0480",
       "U+048A", "U+048C", "U+048E", "U+0490", "U+0492", "U+0494", "U+0496",
       "U+0498", "U+049A", "U+049C", "U+049E", "U+04A0", "U+04A2", "U+04A4",
       "U+04A6", "U+04A8", "U+04AA", "U+04AC", "U+04AE", "U+04B0", "U+04B2",
       "U+04B4", "U+04B6", "U+04B8", "U+04BA", "U+04BC", "U+04BE", "U+04C0",
       "U+04C1", "U+04C3", "U+04C5", "U+04C7", "U+04C9", "U+04CB", "U+04CD",
       "U+04D0", "U+04D2", "U+04D4", "U+04D6", "U+04D8", "U+04DA", "U+04DC",
       "U+04DE", "U+04E0", "U+04E2", "U+04E4", "U+04E6", "U+04E8", "U+04EA",
       "U+04EC", "U+04EE", "U+04F0", "U+04F2", "U+04F4", "U+04F6", "U+04F8",
       "U+04FA", "U+04FC", "U+04FE", "U+0500", "U+0502", "U+0504", "U+0506",
       "U+0508", "U+050A", "U+050C", "U+050E", "U+0510", "U+0512", "U+0514",
       "U+0516", "U+0518", "U+051A", "U+051C", "U+051E", "U+0520", "U+0522",
       "U+0524", "U+0526", "U+0528", "U+052A", "U+052C", "U+052E", "U+0531",
       "U+0532", "U+0533", "U+0534", "U+0535", "U+0536", "U+0537", "U+0538",
       "U+0539", "U+053A", "U+053B", "U+053C", "U+053D", "U+053E", "U+053F",
       "U+0540", "U+0541", "U+0542", "U+0543", "U+0544", "U+0545", "U+0546",
       "U+0547", "U+0548", "U+0549", "U+054A", "U+054B", "U+054C", "U+054D",
       "U+054E", "U+054F", "U+0550", "U+0551", "U+0552", "U+0553", "U+0554",
       "U+0555", "U+0556", "U+10A0", "U+10A1", "U+10A2", "U+10A3", "U+10A4",
       "U+10A5", "U+10A6", "U+10A7", "U+10A8", "U+10A9", "U+10AA", "U+10AB",
       "U+10AC", "U+10AD", "U+10AE", "U+10AF", "U+10B0", "U+10B1", "U+10B2",
       "U+10B3", "U+10B4", "U+10B5", "U+10B6", "U+10B7", "U+10B8", "U+10B9",
       "U+10BA", "U+10BB", "U+10BC", "U+10BD", "U+10BE", "U+10BF", "U+10C0",
       "U+10C1", "U+10C2", "U+10C3", "U+10C4", "U+10C5", "U+10C7", "U+10CD",
       "U+13A0", "U+13A1", "U+13A2", "U+13A3", "U+13A4", "U+13A5", "U+13A6",
       "U+13A7", "U+13A8", "U+13A9", "U+13AA", "U+13AB", "U+13AC", "U+13AD",
       "U+13AE", "U+13AF", "U+13B0", "U+13B1", "U+13B2", "U+13B3", "U+13B4",
       "U+13B5", "U+13B6", "U+13B7", "U+13B8", "U+13B9", "U+13BA", "U+13BB",
       "U+13BC", "U+13BD", "U+13BE", "U+13BF", "U+13C0", "U+13C1", "U+13C2",
       "U+13C3", "U+13C4", "U+13C5", "U+13C6", "U+13C7", "U+13C8", "U+13C9",
       "U+13CA", "U+13CB", "U+13CC", "U+13CD", "U+13CE", "U+13CF", "U+13D0",
       "U+13D1", "U+13D2", "U+13D3", "U+13D4", "U+13D5", "U+13D6", "U+13D7",
       "U+13D8", "U+13D9", "U+13DA", "U+13DB", "U+13DC", "U+13DD", "U+13DE",
       "U+13DF", "U+13E0", "U+13E1", "U+13E2", "U+13E3", "U+13E4", "U+13E5",
       "U+13E6", "U+13E7", "U+13E8", "U+13E9", "U+13EA", "U+13EB", "U+13EC",
       "U+13ED", "U+13EE", "U+13EF", "U+13F0", "U+13F1", "U+13F2", "U+13F3",
       "U+13F4", "U+13F5", "U+1C90", "U+1C91", "U+1C92", "U+1C93", "U+1C94",
       "U+1C95", "U+1C96", "U+1C97", "U+1C98", "U+1C99", "U+1C9A", "U+1C9B",
       "U+1C9C", "U+1C9D", "U+1C9E", "U+1C9F", "U+1CA0", "U+1CA1", "U+1CA2",
       "U+1CA3", "U+1CA4", "U+1CA5", "U+1CA6", "U+1CA7", "U+1CA8", "U+1CA9",
       "U+1CAA", "U+1CAB", "U+1CAC", "U+1CAD", "U+1CAE", "U+1CAF", "U+1CB0",
       "U+1CB1", "U+1CB2", "U+1CB3", "U+1CB4", "U+1CB5", "U+1CB6", "U+1CB7",
       "U+1CB8", "U+1CB9", "U+1CBA", "U+1CBD", "U+1CBE", "U+1CBF", "U+1E00",
       "U+1E02", "U+1E04", "U+1E06", "U+1E08", "U+1E0A", "U+1E0C", "U+1E0E",
       "U+1E10", "U+1E12", "U+1E14", "U+1E16", "U+1E18", "U+1E1A", "U+1E1C",
       "U+1E1E", "U+1E20", "U+1E22", "U+1E24", "U+1E26", "U+1E28", "U+1E2A",
       "U+1E2C", "U+1E2E", "U+1E30", "U+1E32", "U+1E34", "U+1E36", "U+1E38",
       "U+1E3A", "U+1E3C", "U+1E3E", "U+1E40", "U+1E42", "U+1E44", "U+1E46",
       "U+1E48", "U+1E4A", "U+1E4C", "U+1E4E", "U+1E50", "U+1E52", "U+1E54",
       "U+1E56", "U+1E58", "U+1E5A", "U+1E5C", "U+1E5E", "U+1E60", "U+1E62",
       "U+1E64", "U+1E66", "U+1E68", "U+1E6A", "U+1E6C", "U+1E6E", "U+1E70",
       "U+1E72", "U+1E74", "U+1E76", "U+1E78", "U+1E7A", "U+1E7C", "U+1E7E",
       "U+1E80", "U+1E82", "U+1E84", "U+1E86", "U+1E88", "U+1E8A", "U+1E8C",
       "U+1E8E", "U+1E90", "U+1E92", "U+1E94", "U+1E9E", "U+1EA0", "U+1EA2",
       "U+1EA4", "U+1EA6", "U+1EA8", "U+1EAA", "U+1EAC", "U+1EAE", "U+1EB0",
       "U+1EB2", "U+1EB4", "U+1EB6", "U+1EB8", "U+1EBA", "U+1EBC", "U+1EBE",
       "U+1EC0", "U+1EC2", "U+1EC4", "U+1EC6", "U+1EC8", "U+1ECA", "U+1ECC",
       "U+1ECE", "U+1ED0", "U+1ED2", "U+1ED4", "U+1ED6", "U+1ED8", "U+1EDA",
       "U+1EDC", "U+1EDE", "U+1EE0", "U+1EE2", "U+1EE4", "U+1EE6", "U+1EE8",
       "U+1EEA", "U+1EEC", "U+1EEE", "U+1EF0", "U+1EF2", "U+1EF4", "U+1EF6",
       "U+1EF8", "U+1EFA", "U+1EFC", "U+1EFE", "U+1F08", "U+1F09", "U+1F0A",
       "U+1F0B", "U+1F0C", "U+1F0D", "U+1F0E", "U+1F0F", "U+1F18", "U+1F19",
       "U+1F1A", "U+1F1B", "U+1F1C", "U+1F1D", "U+1F28", "U+1F29", "U+1F2A",
       "U+1F2B", "U+1F2C", "U+1F2D", "U+1F2E", "U+1F2F", "U+1F38", "U+1F39",
       "U+1F3A", "U+1F3B", "U+1F3C", "U+1F3D", "U+1F3E", "U+1F3F", "U+1F48",
       "U+1F49", "U+1F4A", "U+1F4B", "U+1F4C", "U+1F4D", "U+1F59", "U+1F5B",
       "U+1F5D", "U+1F5F", "U+1F68", "U+1F69", "U+1F6A", "U+1F6B", "U+1F6C",
       "U+1F6D", "U+1F6E", "U+1F6F", "U+1F88", "U+1F89", "U+1F8A", "U+1F8B",
       "U+1F8C", "U+1F8D", "U+1F8E", "U+1F8F", "U+1F98", "U+1F99", "U+1F9A",
       "U+1F9B", "U+1F9C", "U+1F9D", "U+1F9E", "U+1F9F", "U+1FA8", "U+1FA9",
       "U+1FAA", "U+1FAB", "U+1FAC", "U+1FAD", "U+1FAE", "U+1FAF", "U+1FB8",
       "U+1FB9", "U+1FBA", "U+1FBB", "U+1FBC", "U+1FC8", "U+1FC9", "U+1FCA",
       "U+1FCB", "U+1FCC", "U+1FD8", "U+1FD9", "U+1FDA", "U+1FDB", "U+1FE8",
       "U+1FE9", "U+1FEA", "U+1FEB", "U+1FEC", "U+1FF8", "U+1FF9", "U+1FFA",
       "U+1FFB", "U+1FFC", "U+2126", "U+212A", "U+212B", "U+2132", "U+2160",
       "U+2161", "U+2162", "U+2163", "U+2164", "U+2165", "U+2166", "U+2167",
       "U+2168", "U+2169", "U+216A", "U+216B", "U+216C", "U+216D", "U+216E",
       "U+216F", "U+2183", "U+24B6", "U+24B7", "U+24B8", "U+24B9", "U+24BA",
       "U+24BB", "U+24BC", "U+24BD", "U+24BE", "U+24BF", "U+24C0", "U+24C1",
       "U+24C2", "U+24C3", "U+24C4", "U+24C5", "U+24C6", "U+24C7", "U+24C8",
       "U+24C9", "U+24CA", "U+24CB", "U+24CC", "U+24CD", "U+24CE", "U+24CF",
       "U+2C00", "U+2C01", "U+2C02", "U+2C03", "U+2C04", "U+2C05", "U+2C06",
       "U+2C07", "U+2C08", "U+2C09", "U+2C0A", "U+2C0B", "U+2C0C", "U+2C0D",
       "U+2C0E", "U+2C0F", "U+2C10", "U+2C11", "U+2C12", "U+2C13", "U+2C14",
       "U+2C15", "U+2C16", "U+2C17", "U+2C18", "U+2C19", "U+2C1A", "U+2C1B",
       "U+2C1C", "U+2C1D", "U+2C1E", "U+2C1F", "U+2C20", "U+2C21", "U+2C22",
       "U+2C23", "U+2C24", "U+2C25", "U+2C26", "U+2C27", "U+2C28", "U+2C29",
       "U+2C2A", "U+2C2B", "U+2C2C", "U+2C2D", "U+2C2E", "U+2C60", "U+2C62",
       "U+2C63", "U+2C64", "U+2C67", "U+2C69", "U+2C6B", "U+2C6D", "U+2C6E",
       "U+2C6F", "U+2C70", "U+2C72", "U+2C75", "U+2C7E", "U+2C7F", "U+2C80",
       "U+2C82", "U+2C84", "U+2C86", "U+2C88", "U+2C8A", "U+2C8C", "U+2C8E",
       "U+2C90", "U+2C92", "U+2C94", "U+2C96", "U+2C98", "U+2C9A", "U+2C9C",
       "U+2C9E", "U+2CA0", "U+2CA2", "U+2CA4", "U+2CA6", "U+2CA8", "U+2CAA",
       "U+2CAC", "U+2CAE", "U+2CB0", "U+2CB2", "U+2CB4", "U+2CB6", "U+2CB8",
       "U+2CBA", "U+2CBC", "U+2CBE", "U+2CC0", "U+2CC2", "U+2CC4", "U+2CC6",
       "U+2CC8", "U+2CCA", "U+2CCC", "U+2CCE", "U+2CD0", "U+2CD2", "U+2CD4",
       "U+2CD6", "U+2CD8", "U+2CDA", "U+2CDC", "U+2CDE", "U+2CE0", "U+2CE2",
       "U+2CEB", "U+2CED", "U+2CF2", "U+A640", "U+A642", "U+A644", "U+A646",
       "U+A648", "U+A64A", "U+A64C", "U+A64E", "U+A650", "U+A652", "U+A654",
       "U+A656", "U+A658", "U+A65A", "U+A65C", "U+A65E", "U+A660", "U+A662",
       "U+A664", "U+A666", "U+A668", "U+A66A", "U+A66C", "U+A680", "U+A682",
       "U+A684", "U+A686", "U+A688", "U+A68A", "U+A68C", "U+A68E", "U+A690",
       "U+A692", "U+A694", "U+A696", "U+A698", "U+A69A", "U+A722", "U+A724",
       "U+A726", "U+A728", "U+A72A", "U+A72C", "U+A72E", "U+A732", "U+A734",
       "U+A736", "U+A738", "U+A73A", "U+A73C", "U+A73E", "U+A740", "U+A742",
       "U+A744", "U+A746", "U+A748", "U+A74A", "U+A74C", "U+A74E", "U+A750",
       "U+A752", "U+A754", "U+A756", "U+A758", "U+A75A", "U+A75C", "U+A75E",
       "U+A760", "U+A762", "U+A764", "U+A766", "U+A768", "U+A76A", "U+A76C",
       "U+A76E", "U+A779", "U+A77B", "U+A77D", "U+A77E", "U+A780", "U+A782",
       "U+A784", "U+A786", "U+A78B", "U+A78D", "U+A790", "U+A792", "U+A796",
       "U+A798", "U+A79A", "U+A79C", "U+A79E", "U+A7A0", "U+A7A2", "U+A7A4",
       "U+A7A6", "U+A7A8", "U+A7AA", "U+A7AB", "U+A7AC", "U+A7AD", "U+A7AE",
       "U+A7B0", "U+A7B1", "U+A7B2", "U+A7B3", "U+A7B4", "U+A7B6", "U+A7B8",
       "U+A7BA", "U+A7BC", "U+A7BE", "U+A7C2", "U+A7C4", "U+A7C5", "U+A7C6",
       "U+A7C7", "U+A7C9", "U+A7F5", "U+FF21", "U+FF22", "U+FF23", "U+FF24",
       "U+FF25", "U+FF26", "U+FF27", "U+FF28", "U+FF29", "U+FF2A", "U+FF2B",
       "U+FF2C", "U+FF2D", "U+FF2E", "U+FF2F", "U+FF30", "U+FF31", "U+FF32",
       "U+FF33", "U+FF34", "U+FF35", "U+FF36", "U+FF37", "U+FF38", "U+FF39",
       "U+FF3A", "U+10400", "U+10401", "U+10402", "U+10403", "U+10404",
       "U+10405", "U+10406", "U+10407", "U+10408", "U+10409", "U+1040A",
       "U+1040B", "U+1040C", "U+1040D", "U+1040E", "U+1040F", "U+10410",
       "U+10411", "U+10412", "U+10413", "U+10414", "U+10415", "U+10416",
       "U+10417", "U+10418", "U+10419", "U+1041A", "U+1041B", "U+1041C",
       "U+1041D", "U+1041E", "U+1041F", "U+10420", "U+10421", "U+10422",
       "U+10423", "U+10424", "U+10425", "U+10426", "U+10427", "U+104B0",
       "U+104B1", "U+104B2", "U+104B3", "U+104B4", "U+104B5", "U+104B6",
       "U+104B7", "U+104B8", "U+104B9", "U+104BA", "U+104BB", "U+104BC",
       "U+104BD", "U+104BE", "U+104BF", "U+104C0", "U+104C1", "U+104C2",
       "U+104C3", "U+104C4", "U+104C5", "U+104C6", "U+104C7", "U+104C8",
       "U+104C9", "U+104CA", "U+104CB", "U+104CC", "U+104CD", "U+104CE",
       "U+104CF", "U+104D0", "U+104D1", "U+104D2", "U+104D3", "U+10C80",
       "U+10C81", "U+10C82", "U+10C83", "U+10C84", "U+10C85", "U+10C86",
       "U+10C87", "U+10C88", "U+10C89", "U+10C8A", "U+10C8B", "U+10C8C",
       "U+10C8D", "U+10C8E", "U+10C8F", "U+10C90", "U+10C91", "U+10C92",
       "U+10C93", "U+10C94", "U+10C95", "U+10C96", "U+10C97", "U+10C98",
       "U+10C99", "U+10C9A", "U+10C9B", "U+10C9C", "U+10C9D", "U+10C9E",
       "U+10C9F", "U+10CA0", "U+10CA1", "U+10CA2", "U+10CA3", "U+10CA4",
       "U+10CA5", "U+10CA6", "U+10CA7", "U+10CA8", "U+10CA9", "U+10CAA",
       "U+10CAB", "U+10CAC", "U+10CAD", "U+10CAE", "U+10CAF", "U+10CB0",
       "U+10CB1", "U+10CB2", "U+118A0", "U+118A1", "U+118A2", "U+118A3",
       "U+118A4", "U+118A5", "U+118A6", "U+118A7", "U+118A8", "U+118A9",
       "U+118AA", "U+118AB", "U+118AC", "U+118AD", "U+118AE", "U+118AF",
       "U+118B0", "U+118B1", "U+118B2", "U+118B3", "U+118B4", "U+118B5",
       "U+118B6", "U+118B7", "U+118B8", "U+118B9", "U+118BA", "U+118BB",
       "U+118BC", "U+118BD", "U+118BE", "U+118BF", "U+16E40", "U+16E41",
       "U+16E42", "U+16E43", "U+16E44", "U+16E45", "U+16E46", "U+16E47",
       "U+16E48", "U+16E49", "U+16E4A", "U+16E4B", "U+16E4C", "U+16E4D",
       "U+16E4E", "U+16E4F", "U+16E50", "U+16E51", "U+16E52", "U+16E53",
       "U+16E54", "U+16E55", "U+16E56", "U+16E57", "U+16E58", "U+16E59",
       "U+16E5A", "U+16E5B", "U+16E5C", "U+16E5D", "U+16E5E", "U+16E5F",
       "U+1E900", "U+1E901", "U+1E902", "U+1E903", "U+1E904", "U+1E905",
       "U+1E906", "U+1E907", "U+1E908", "U+1E909", "U+1E90A", "U+1E90B",
       "U+1E90C", "U+1E90D", "U+1E90E", "U+1E90F", "U+1E910", "U+1E911",
       "U+1E912", "U+1E913", "U+1E914", "U+1E915", "U+1E916", "U+1E917",
       "U+1E918", "U+1E919", "U+1E91A", "U+1E91B", "U+1E91C", "U+1E91D",
       "U+1E91E", "U+1E91F", "U+1E920", "U+1E921" >>

UnicodeLower ==
    << "U+00E0", "U+00E1", "U+00E2", "U+00E3", "U+00E4", "U+00E5", "U+00E6",
       "U+00E7", "U+00E8", "U+00E9", "U+00EA", "U+00EB", "U+00EC", "U+00ED",
       "U+00EE", "U+00EF", "U+00F0", "U+00F1", "U+00F2", "U+00F3", "U+00F4",
       "U+00F5", "U+00F6", "U+00F8", "U+00F9", "U+00FA", "U+00FB", "U+00FC",
       "U+00FD", "U+00FE", "U+0101", "U+0103", "U+0105", "U+0107", "U+0109",
       "U+010B", "U+010D", "U+010F", "U+0111", "U+0113", "U+0115", "U+0117",
       "U+0119", "U+011B", "U+011D", "U+011F", "U+0121", "U+0123", "U+0125",
       "U+0127", "U+0129", "U+012B", "U+012D", "U+012F", "i", "U+0133",
       "U+0135", "U+0137", "U+013A", "U+013C", "U+013E", "U+0140", "U+0142",
       "U+0144", "U+0146", "U+0148", "U+014B", "U+014D", "U+014F", "U+0151",
       "U+0153", "U+0155", "U+0157", "U+0159", "U+015B", "U+015D", "U+015F",
       "U+0161", "U+0163", "U+0165", "U+0167", "U+0169", "U+016B", "U+016D",
       "U+016F", "U+0171", "U+0173", "U+0175", "U+0177", "U+00FF", "U+017A",
       "U+017C", "U+017E", "U+0253", "U+0183", "U+0185", "U+0254", "U+0188",
       "U+0256", "U+0257", "U+018C", "U+01DD", "U+0259", "U+025B", "U+0192",
       "U+0260", "U+0263", "U+0269", "U+0268", "U+0199", "U+026F", "U+0272",
       "U+0275", "U+01A1", "U+01A3", "U+01A5", "U+0280", "U+01A8", "U+0283",
       "U+01AD", "U+0288", "U+01B0", "U+028A", "U+028B", "U+01B4", "U+01B6",
       "U+0292", "U+01B9", "U+01BD", "U+01C6", "U+01C6", "U+01C9", "U+01C9",
       "U+01CC", "U+01CC", "U+01CE", "U+01D0", "U+01D2", "U+01D4", "U+01D6",
       "U+01D8", "U+01DA", "U+01DC", "U+01DF", "U+01E1", "U+01E3", "U+01E5",
       "U+01E7", "U+01E9", "U+01EB", "U+01ED", "U+01EF", "U+01F3", "U+01F3",
       "U+01F5", "U+0195", "U+01BF", "U+01F9", "U+01FB", "U+01FD", "U+01FF",
       "U+0201", "U+0203", "U+0205", "U+0207", "U+0209", "U+020B", "U+020D",
       "U+020F", "U+0211", "U+0213", "U+0215", "U+0217", "U+0219", "U+021B",
       "U+021D", "U+021F", "U+019E", "U+0223", "U+0225", "U+0227", "U+0229",
       "U+022B", "U+022D", "U+022F", "U+0231", "U+0233", "U+2C65", "U+023C",
       "U+019A", "U+2C66", "U+0242", "U+0180", "U+0289", "U+028C", "U+0247",
       "U+0249", "U+024B", "U+024D", "U+024F", "U+0371", "U+0373", "U+0377",
       "U+03F3", "U+03AC", "U+03AD", "U+03AE", "U+03AF", "U+03CC", "U+03CD",
       "U+03CE", "U+03B1", "U+03B2", "U+03B3", "U+03B4", "U+03B5", "U+03B6",
       "U+03B7", "U+03B8", "U+03B9", "U+03BA", "U+03BB", "U+03BC", "U+03BD",
       "U+03BE", "U+03BF", "U+03C0", "U+03C1", "U+03C3", "U+03C4", "U+03C5",
       "U+03C6", "U+03C7", "U+03C8", "U+03C9", "U+03CA", "U+03CB", "U+03D7",
       "U+03D9", "U+03DB", "U+03DD", "U+03DF", "U+03E1", "U+03E3", "U+03E5",
       "U+03E7", "U+03E9", "U+03EB", "U+03ED", "U+03EF", "U+03B8", "U+03F8",
       "U+03F2", "U+03FB", "U+037B", "U+037C", "U+037D", "U+0450", "U+0451",
       "U+0452", "U+0453", "U+0454", "U+0455", "U+0456", "U+0457", "U+0458",
       "U+0459", "U+045A", "U+045B", "U+045C", "U+045D", "U+045E", "U+045F",
       "U+0430", "U+0431", "U+0432", "U+0433", "U+0434", "U+0435", "U+0436",
       "U+0437", "U+0438", "U+0439", "U+043A", "U+043B", "U+043C", "U+043D",
       "U+043E", "U+043F", "U+0440", "U+0441", "U+0442", "U+0443", "U+0444",
       "U+0445", "U+0446", "U+0447", "U+0448", "U+0449", "U+044A", "U+044B",
       "U+044C", "U+044D", "U+044E", "U+044F", "U+0461", "U+0463", "U+0465",
       "U+0467", "U+0469", "U+046B", "U+046D", "U+046F", "U+0471", "U+0473",
       "U+0475", "U+0477", "U+0479", "U+047B", "U+047D", "U+047F", "U+0481",
       "U+048B", "U+048D", "U+048F", "U+0491", "U+0493", "U+0495", "U+0497",
       "U+0499", "U+049B", "U+049D", "U+049F", "U+04A1", "U+04A3", "U+04A5",
       "U+04A7", "U+04A9", "U+04AB", "U+04AD", "U+04AF", "U+04B1", "U+04B3",
       "U+04B5", "U+04B7", "U+04B9", "U+04BB", "U+04BD", "U+04BF", "U+04CF",
       "U+04C2", "U+04C4", "U+04C6", "U+04C8", "U+04CA", "U+04CC", "U+04CE",
       "U+04D1", "U+04D3", "U+04D5", "U+04D7", "U+04D9", "U+04DB", "U+04DD",
       "U+04DF", "U+04E1", "U+04E3", "U+04E5", "U+04E7", "U+04E9", "U+04EB",
       "U+04ED", "U+04EF", "U+04F1", "U+04F3", "U+04F5", "U+04F7", "U+04F9",
       "U+04FB", "U+04FD", "U+04FF", "U+0501", "U+0503", "U+0505", "U+0507",
       "U+0509", "U+050B", "U+050D", "U+050F", "U+0511", "U+0513", "U+0515",
       "U+0517", "U+0519", "U+051B", "U+051D", "U+051F", "U+0521", "U+0523",
       "U+0525", "U+0527", "U+0529", "U+052B", "U+052D", "U+052F", "U+0561",
       "U+0562", "U+0563", "U+0564", "U+0565", "U+0566", "U+0567", "U+0568",
       "U+0569", "U+056A", "U+056B", "U+056C", "U+056D", "U+056E", "U+056F",
       "U+0570", "U+0571", "U+0572", "U+0573", "U+0574", "U+0575", "U+0576",
       "U+0577", "U+0578", "U+0579", "U+057A", "U+057B", "U+057C", "U+057D",
       "U+057E", "U+057F", "U+0580", "U+0581", "U+0582", "U+0583", "U+0584",
       "U+0585", "U+0586", "U+2D00", "U+2D01", "U+2D02", "U+2D03", "U+2D04",
       "U+2D05", "U+2D06", "U+2D07", "U+2D08", "U+2D09", "U+2D0A", "U+2D0B",
       "U+2D0C", "U+2D0D", "U+2D0E", "U+2D0F", "U+2D10", "U+2D11", "U+2D12",
       "U+2D13", "U+2D14", "U+2D15", "U+2D16", "U+2D17", "U+2D18", "U+2D19",
       "U+2D1A", "U+2D1B", "U+2D1C", "U+2D1D", "U+2D1E", "U+2D1F", "U+2D20",
       "U+2D21", "U+2D22", "U+2D23", "U+2D24", "U+2D25", "U+2D27", "U+2D2D",
       "U+AB70", "U+AB71", "U+AB72", "U+AB73", "U+AB74", "U+AB75", "U+AB76",
       "U+AB77", "U+AB78", "U+AB79", "U+AB7A", "U+AB7B", "U+AB7C", "U+AB7D",
       "U+AB7E", "U+AB7F", "U+AB80", "U+AB81", "U+AB82", "U+AB83", "U+AB84",
       "U+AB85", "U+AB86", "U+AB87", "U+AB88", "U+AB89", "U+AB8A", "U+AB8B",
       "U+AB8C", "U+AB8D", "U+AB8E", "U+AB8F", "U+AB90", "U+AB91", "U+AB92",
       "U+AB93", "U+AB94", "U+AB95", "U+AB96", "U+AB97", "U+AB98", "U+AB99",
       "U+AB9A", "U+AB9B", "U+AB9C", "U+AB9D", "U+AB9E", "U+AB9F", "U+ABA0",
       "U+ABA1", "U+ABA2", "U+ABA3", "U+ABA4", "U+ABA5", "U+ABA6", "U+ABA7",
       "U+ABA8", "U+ABA9", "U+ABAA", "U+ABAB", "U+ABAC", "U+ABAD", "U+ABAE",
       "U+ABAF", "U+ABB0", "U+ABB1", "U+ABB2", "U+ABB3", "U+ABB4", "U+ABB5",
       "U+ABB6", "U+ABB7", "U+ABB8", "U+ABB9", "U+ABBA", "U+ABBB", "U+ABBC",
       "U+ABBD", "U+ABBE", "U+ABBF", "U+13F8", "U+13F9", "U+13FA", "U+13FB",
       "U+13FC", "U+13FD", "U+10D0", "U+10D1", "U+10D2", "U+10D3", "U+10D4",
       "U+10D5", "U+10D6", "U+10D7", "U+10D8", "U+10D9", "U+10DA", "U+10DB",
       "U+10DC", "U+10DD", "U+10DE", "U+10DF", "U+10E0", "U+10E1", "U+10E2",
       "U+10E3", "U+10E4", "U+10E5", "U+10E6", "U+10E7", "U+10E8", "U+10E9",
       "U+10EA", "U+10EB", "U+10EC", "U+10ED", "U+10EE", "U+10EF", "U+10F0",
       "U+10F1", "U+10F2", "U+10F3", "U+10F4", "U+10F5", "U+10F6", "U+10F7",
       "U+10F8", "U+10F9", "U+10FA", "U+10FD", "U+10FE", "U+10FF", "U+1E01",
       "U+1E03", "U+1E05", "U+1E07", "U+1E09", "U+1E0B", "U+1E0D", "U+1E0F",
       "U+1E11", "U+1E13", "U+1E15", "U+1E17", "U+1E19", "U+1E1B", "U+1E1D",
       "U+1E1F", "U+1E21", "U+1E23", "U+1E25", "U+1E27", "U+1E29", "U+1E2B",
       "U+1E2D", "U+1E2F", "U+1E31", "U+1E33", "U+1E35", "U+1E37", "U+1E39",
       "U+1E3B", "U+1E3D", "U+1E3F", "U+1E41", "U+1E43", "U+1E45", "U+1E47",
       "U+1E49", "U+1E4B", "U+1E4D", "U+1E4F", "U+1E51", "U+1E53", "U+1E55",
       "U+1E57", "U+1E59", "U+1E5B", "U+1E5D", "U+1E5F", "U+1E61", "U+1E63",
       "U+1E65", "U+1E67", "U+1E69", "U+1E6B", "U+1E6D", "U+1E6F", "U+1E71",
       "U+1E73", "U+1E75", "U+1E77", "U+1E79", "U+1E7B", "U+1E7D", "U+1E7F",
       "U+1E81", "U+1E83", "U+1E85", "U+1E87", "U+1E89", "U+1E8B", "U+1E8D",
       "U+1E8F", "U+1E91", "U+1E93", "U+1E95", "U+00DF", "U+1EA1", "U+1EA3",
       "U+1EA5", "U+1EA7", "U+1EA9", "U+1EAB", "U+1EAD", "U+1EAF", "U+1EB1",
       "U+1EB3", "U+1EB5", "U+1EB7", "U+1EB9", "U+1EBB", "U+1EBD", "U+1EBF",
       "U+1EC1", "U+1EC3", "U+1EC5", "U+1EC7", "U+1EC9", "U+1ECB", "U+1ECD",
       "U+1ECF", "U+1ED1", "U+1ED3", "U+1ED5", "U+1ED7", "U+1ED9", "U+1EDB",
       "U+1EDD", "U+1EDF", "U+1EE1", "U+1EE3", "U+1EE5", "U+1EE7", "U+1EE9",
       "U+1EEB", "U+1EED", "U+1EEF", "U+1EF1", "U+1EF3", "U+1EF5", "U+1EF7",
       "U+1EF9", "U+1EFB", "U+1EFD", "U+1EFF", "U+1F00", "U+1F01", "U+1F02",
       "U+1F03", "U+1F04", "U+1F05", "U+1F06", "U+1F07", "U+1F10", "U+1F11",
       "U+1F12", "U+1F13", "U+1F14", "U+1F15", "U+1F20", "U+1F21", "U+1F22",
       "U+1F23", "U+1F24", "U+1F25", "U+1F26", "U+1F27", "U+1F30", "U+1F31",
       "U+1F32", "U+1F33", "U+1F34", "U+1F35", "U+1F36", "U+1F37", "U+1F40",
       "U+1F41", "U+1F42", "U+1F43", "U+1F44", "U+1F45", "U+1F51", "U+1F53",
       "U+1F55", "U+1F57", "U+1F60", "U+1F61", "U+1F62", "U+1F63", "U+1F64",
       "U+1F65", "U+1F66", "U+1F67", "U+1F80", "U+1F81", "U+1F82", "U+1F83",
       "U+1F84", "U+1F85", "U+1F86", "U+1F87", "U+1F90", "U+1F91", "U+1F92",
       "U+1F93", "U+1F94", "U+1F95", "U+1F96", "U+1F97", "U+1FA0", "U+1FA1",
       "U+1FA2", "U+1FA3", "U+1FA4", "U+1FA5", "U+1FA6", "U+1FA7", "U+1FB0",
       "U+1FB1", "U+1F70", "U+1F71", "U+1FB3", "U+1F72", "U+1F73", "U+1F74",
       "U+1F75", "U+1FC3", "U+1FD0", "U+1FD1", "U+1F76", "U+1F77", "U+1FE0",
       "U+1FE1", "U+1F7A", "U+1F7B", "U+1FE5", "U+1F78", "U+1F79", "U+1F7C",
       "U+1F7D", "U+1FF3", "U+03C9", "k", "U+00E5", "U+214E", "U+2170",
       "U+2171", "U+2172", "U+2173", "U+2174", "U+2175", "U+2176", "U+2177",
       "U+2178", "U+2179", "U+217A", "U+217B", "U+217C", "U+217D", "U+217E",
       "U+217F", "U+2184", "U+24D0", "U+24D1", "U+24D2", "U+24D3", "U+24D4",
       "U+24D5", "U+24D6", "U+24D7", "U+24D8", "U+24D9", "U+24DA", "U+24DB",
       "U+24DC", "U+24DD", "U+24DE", "U+24DF", "U+24E0", "U+24E1", "U+24E2",
       "U+24E3", "U+24E4", "U+24E5", "U+24E6", "U+24E7", "U+24E8", "U+24E9",
       "U+2C30", "U+2C31", "U+2C32", "U+2C33", "U+2C34", "U+2C35", "U+2C36",
       "U+2C37", "U+2C38", "U+2C39", "U+2C3A", "U+2C3B", "U+2C3C", "U+2C3D",
       "U+2C3E", "U+2C3F", "U+2C40", "U+2C41", "U+2C42", "U+2C43", "U+2C44",
       "U+2C45", "U+2C46", "U+2C47", "U+2C48", "U+2C49", "U+2C4A", "U+2C4B",
       "U+2C4C", "U+2C4D", "U+2C4E", "U+2C4F", "U+2C50", "U+2C51", "U+2C52",
       "U+2C53", "U+2C54", "U+2C55", "U+2C56", "U+2C57", "U+2C58", "U+2C59",
       "U+2C5A", "U+2C5B", "U+2C5C", "U+2C5D", "U+2C5E", "U+2C61", "U+026B",
       "U+1D7D", "U+027D", "U+2C68", "U+2C6A", "U+2C6C", "U+0251", "U+0271",
       "U+0250", "U+0252", "U+2C73", "U+2C76", "U+023F", "U+0240", "U+2C81",
       "U+2C83", "U+2C85", "U+2C87", "U+2C89", "U+2C8B", "U+2C8D", "U+2C8F",
       "U+2C91", "U+2C93", "U+2C95", "U+2C97", "U+2C99", "U+2C9B", "U+2C9D",
       "U+2C9F", "U+2CA1", "U+2CA3", "U+2CA5", "U+2CA7", "U+2CA9", "U+2CAB",
       "U+2CAD", "U+2CAF", "U+2CB1", "U+2CB3", "U+2CB5", "U+2CB7", "U+2CB9",
       "U+2CBB", "U+2CBD", "U+2CBF", "U+2CC1", "U+2CC3", "U+2CC5", "U+2CC7",
       "U+2CC9", "U+2CCB", "U+2CCD", "U+2CCF", "U+2CD1", "U+2CD3", "U+2CD5",
       "U+2CD7", "U+2CD9", "U+2CDB", "U+2CDD", "U+2CDF", "U+2CE1", "U+2CE3",
       "U+2CEC", "U+2CEE", "U+2CF3", "U+A641", "U+A643", "U+A645", "U+A647",
       "U+A649", "U+A64B", "U+A64D", "U+A64F", "U+A651", "U+A653", "U+A655",
       "U+A657", "U+A659", "U+A65B", "U+A65D", "U+A65F", "U+A661", "U+A663",
       "U+A665", "U+A667", "U+A669", "U+A66B", "U+A66D", "U+A681", "U+A683",
       "U+A685", "U+A687", "U+A689", "U+A68B", "U+A68D", "U+A68F", "U+A691",
       "U+A693", "U+A695", "U+A697", "U+A699", "U+A69B", "U+A723", "U+A725",
       "U+A727", "U+A729", "U+A72B", "U+A72D", "U+A72F", "U+A733", "U+A735",
       "U+A737", "U+A739", "U+A73B", "U+A73D", "U+A73F", "U+A741", "U+A743",
       "U+A745", "U+A747", "U+A749", "U+A74B", "U+A74D", "U+A74F", "U+A751",
       "U+A753", "U+A755", "U+A757", "U+A759", "U+A75B", "U+A75D", "U+A75F",
       "U+A761", "U+A763", "U+A765", "U+A767", "U+A769", "U+A76B", "U+A76D",
       "U+A76F", "U+A77A", "U+A77C", "U+1D79", "U+A77F", "U+A781", "U+A783",
       "U+A785", "U+A787", "U+A78C", "U+0265", "U+A791", "U+A793", "U+A797",
       "U+A799", "U+A79B", "U+A79D", "U+A79F", "U+A7A1", "U+A7A3", "U+A7A5",
       "U+A7A7", "U+A7A9", "U+0266", "U+025C", "U+0261", "U+026C", "U+026A",
       "U+029E", "U+0287", "U+029D", "U+AB53", "U+A7B5", "U+A7B7", "U+A7B9",
       "U+A7BB", "U+A7BD", "U+A7BF", "U+A7C3", "U+A794", "U+0282", "U+1D8E",
       "U+A7C8", "U+A7CA", "U+A7F6", "U+FF41", "U+FF42", "U+FF43", "U+FF44",
       "U+FF45", "U+FF46", "U+FF47", "U+FF48", "U+FF49", "U+FF4A", "U+FF4B",
       "U+FF4C", "U+FF4D", "U+FF4E", "U+FF4F", "U+FF50", "U+FF51", "U+FF52",
       "U+FF53", "U+FF54", "U+FF55", "U+FF56", "U+FF57", "U+FF58", "U+FF59",
       "U+FF5A", "U+10428", "U+10429", "U+1042A", "U+1042B", "U+1042C",
       "U+1042D", "U+1042E", "U+1042F", "U+10430", "U+10431", "U+10432",
       "U+10433", "U+10434", "U+10435", "U+10436", "U+10437", "U+10438",
       "U+10439", "U+1043A", "U+1043B", "U+1043C", "U+1043D", "U+1043E",
       "U+1043F", "U+10440", "U+10441", "U+10442", "U+10443", "U+10444",
       "U+10445", "U+10446", "U+10447", "U+10448", "U+10449", "U+1044A",
       "U+1044B", "U+1044C", "U+1044D", "U+1044E", "U+1044F", "U+104D8",
       "U+104D9", "U+104DA", "U+104DB", "U+104DC", "U+104DD", "U+104DE",
       "U+104DF", "U+104E0", "U+104E1", "U+104E2", "U+104E3", "U+104E4",
       "U+104E5", "U+104E6", "U+104E7", "U+104E8", "U+104E9", "U+104EA",
       "U+104EB", "U+104EC", "U+104ED", "U+104EE", "U+104EF", "U+104F0",
       "U+104F1", "U+104F2", "U+104F3", "U+104F4", "U+104F5", "U+104F6",
       "U+104F7", "U+104F8", "U+104F9", "U+104FA", "U+104FB", "U+10CC0",
       "U+10CC1", "U+10CC2", "U+10CC3", "U+10CC4", "U+10CC5", "U+10CC6",
       "U+10CC7", "U+10CC8", "U+10CC9", "U+10CCA", "U+10CCB", "U+10CCC",
       "U+10CCD", "U+10CCE", "U+10CCF", "U+10CD0", "U+10CD1", "U+10CD2",
       "U+10CD3", "U+10CD4", "U+10CD5", "U+10CD6", "U+10CD7", "U+10CD8",
       "U+10CD9", "U+10CDA", "U+10CDB", "U+10CDC", "U+10CDD", "U+10CDE",
       "U+10CDF", "U+10CE0", "U+10CE1", "U+10CE2", "U+10CE3", "U+10CE4",
       "U+10CE5", "U+10CE6", "U+10CE7", "U+10CE8", "U+10CE9", "U+10CEA",
       "U+10CEB", "U+10CEC", "U+10CED", "U+10CEE", "U+10CEF", "U+10CF0",
       "U+10CF1", "U+10CF2", "U+118C0", "U+118C1", "U+118C2", "U+118C3",
       "U+118C4", "U+118C5", "U+118C6", "U+118C7", "U+118C8", "U+118C9",
       "U+118CA", "U+118CB", "U+118CC", "U+118CD", "U+118CE", "U+118CF",
       "U+118D0", "U+118D1", "U+118D2", "U+118D3", "U+118D4", "U+118D5",
       "U+118D6", "U+118D7", "U+118D8", "U+118D9", "U+118DA", "U+118DB",
       "U+118DC", "U+118DD", "U+118DE", "U+118DF", "U+16E60", "U+16E61",
       "U+16E62", "U+16E63", "U+16E64", "U+16E65", "U+16E66", "U+16E67",
       "U+16E68", "U+16E69", "U+16E6A", "U+16E6B", "U+16E6C", "U+16E6D",
       "U+16E6E", "U+16E6F", "U+16E70", "U+16E71", "U+16E72", "U+16E73",
       "U+16E74", "U+16E75", "U+16E76", "U+16E77", "U+16E78", "U+16E79",
       "U+16E7A", "U+16E7B", "U+16E7C", "U+16E7D", "U+16E7E", "U+16E7F",
       "U+1E922", "U+1E923", "U+1E924", "U+1E925", "U+1E926", "U+1E927",
       "U+1E928", "U+1E929", "U+1E92A", "U+1E92B", "U+1E92C", "U+1E92D",
       "U+1E92E", "U+1E92F", "U+1E930", "U+1E931", "U+1E932", "U+1E933",
       "U+1E934", "U+1E935", "U+1E936", "U+1E937", "U+1E938", "U+1E939",
       "U+1E93A", "U+1E93B", "U+1E93C", "U+1E93D", "U+1E93E", "U+1E93F",
       "U+1E940", "U+1E941", "U+1E942", "U+1E943" >>

\* the characters of UnicodeUpper
UnicodeUpperSet == { UnicodeUpper[i] : i \in 1..Len(UnicodeUpper) }

\* unicode.ToLower on one character, as strings.ToLower applies it
ToLowerChar(c) ==
    IF \E i \in 1..Len(UpperCase) : UpperCase[i] = c
    THEN LowerCase[CHOOSE i \in 1..Len(UpperCase) : UpperCase[i] = c]
    ELSE IF c \in UnicodeUpperSet
    THEN UnicodeLower[CHOOSE i \in 1..Len(UnicodeUpper) : UnicodeUpper[i] = c]
    ELSE c

ToLower(s) == [i \in 1..Len(s) |-> ToLowerChar(s[i])]


RECURSIVE Flat(_)
\* concatenation of a sequence of strings
Flat(ss) == IF ss = <<>> THEN <<>> ELSE Head(ss) \o Flat(Tail(ss))

\* the replacer of sanitizeMetricName with "-" dropped instead of replaced
MetricReplacerDropsDash(c) ==
    CASE c = "-" -> <<>>
      [] c = " " -> <<"_">>
      [] c = "." -> <<>>
      [] c = "/" -> <<"_">>
      [] OTHER   -> <<c>>

\* the replacer of sanitizeMetricName (lines 485-490), applied to one character
MetricReplacer(c) ==
    CASE c = "-" -> <<"_">>
      [] c = " " -> <<"_">>
      [] c = "." -> <<>>
      [] c = "/" -> <<"_">>
      [] OTHER   -> <<c>>

sanitizeMetricName(name) ==
    ToLower(Flat([i \in 1..Len(name) |-> MetricReplacer(name[i])]))

\* the replacer of sanitizeLabelValue (lines 495-500), applied to one character
LabelReplacer(c) ==
    CASE c = "," -> <<"_">>
      [] c = " " -> <<"_">>
      [] c = "/" -> <<"_">>
      [] c = "\\" -> <<"_">>
      [] OTHER   -> <<c>>

sanitizeLabelValue(value) ==
    Flat([i \in 1..Len(value) |-> LabelReplacer(value[i])])

\* metricName := sanitizeMetricName("smartctl_" + key)   (line 257)
MetricNameOf(key) == sanitizeMetricName(S_smartctl_ \o key)

contains(slice, item) == \E i \in 1..Len(slice) : slice[i] = item

boolToFloat(b) == IF b THEN 1 ELSE 0

RECURSIVE SeqsUpTo(_, _)
\* all sequences over alphabet A of length at most n
SeqsUpTo(A, n) ==
    IF n = 0 THEN { <<>> }
    ELSE LET shorter == SeqsUpTo(A, n - 1)
         IN  shorter \cup { Append(s, c) : s \in shorter, c \in A }

\* F of the value of e: e is evaluated once, whatever F does with it
With(e, F(_)) == CHOOSE r \in { F(x) : x \in { e } } : TRUE

-----------------------------------------------------------------------------
(* The program at rest: the values every specification gives to the part   *)
(* of the state it does not exercise.                                      *)

NoCall == [op |-> "none", in |-> <<>>, out |-> <<>>, done |-> FALSE]

-----------------------------------------------------------------------------
(* Sanitizing names: sanitizeMetricName and sanitizeLabelValue applied to  *)
(* every short string over an alphabet holding each replaced character,    *)
(* and to the key "Power-On Hours.2".                                      *)

MaxNameLen == 3

SanAlphabet ==
    {"P", "o", "-", " ", ".", "/", "_", ",", "\\", "2", "U+00C9", "U+212A"}

\* "Power-On Hours.2"
S_PowerOnHours2 ==
    <<"P","o","w","e","r","-","O","n"," ","H","o","u","r","s",".","2">>

\* "smartctl_power_on_hours2"
S_smartctl_power_on_hours2 ==
    <<"s","m","a","r","t","c","t","l","_","p","o","w","e","r","_","o","n",
      "_","h","o","u","r","s","2">>

\* "smartctl_poweron_hours2"
S_smartctl_poweron_hours2 ==
    <<"s","m","a","r","t","c","t","l","_","p","o","w","e","r","o","n",
      "_","h","o","u","r","s","2">>

SanInputs == SeqsUpTo(SanAlphabet, MaxNameLen) \cup {S_PowerOnHours2}

RestInit ==
    /\ devices = <<>>
    /\ metrics = <<>>
    /\ mutex = 0
    /\ mainPc = "idle"
    /\ inCollect = <<>>
    /\ todo = {}
    /\ passNo = 0
    /\ tickerC = <<>>
    /\ fired = 0
    /\ hist = <<>>

InitSanitize ==
    /\ RestInit
    /\ \E s \in SanInputs : call = [NoCall EXCEPT !.in = s]

\* collect's naming of the series of one attribute key (line 257)
SanitizeMetric ==
    /\ ~call.done
    /\ call' = [op |-> "metric", in |-> call.in,
                out |-> MetricNameOf(call.in), done |-> TRUE]
    /\ UNCHANGED progVars

\* collect's "drive" label of one device name (line 271)
SanitizeLabel ==
    /\ ~call.done
    /\ call' = [op |-> "label", in |-> call.in,
                out |-> sanitizeLabelValue(call.in), done |-> TRUE]
    /\ UNCHANGED progVars

NextSanitize == SanitizeMetric \/ SanitizeLabel

SpecSanitize == InitSanitize /\ [][NextSanitize]_vars

\* C9 as the spec states it: the metric name of the key "Power-On Hours.2"
\* is "smartctl_poweron_hours2".
C9_AsStated ==
    (call.op = "metric" /\ call.done /\ call.in = S_PowerOnHours2)
        => call.out = S_smartctl_poweron_hours2

\* C9, amended: the metric name of the key "Power-On Hours.2", that is the
\* sanitized "smartctl_Power-On Hours.2", is "smartctl_power_on_hours2":
\* '-' and space each become '_', '.' is removed, letters are lower-cased;
\* and no metric name holds a '-', a space, a '.', a '/' or a capital (a
\* letter that lower-casing changes, ASCII or not).
C9_PowerOnHours ==
    (call.op = "metric" /\ call.done) =>
        /\ call.in = S_PowerOnHours2 => call.out = S_smartctl_power_on_hours2
        /\ \A i \in 1..Len(call.out) :
              /\ call.out[i] \notin {"-", " ", ".", "/"}
              /\ ~contains(UpperCase, call.out[i])
              /\ ToLowerChar(call.out[i]) = call.out[i]
        /\ Len(call.out) =
              Len(S_smartctl_) + Cardinality({i \in 1..Len(call.in) : call.in[i] # "."})

C9_Witness ==
    call.op = "metric" /\ call.done /\ call.in = S_PowerOnHours2

-----------------------------------------------------------------------------
(* Decoded JSON (the map[string]interface{} trees of encoding/json) *)

JNum(n)  == [t |-> "num",  v |-> n]
JBool(b) == [t |-> "bool", v |-> b]
JStr(s)  == [t |-> "str",  v |-> s]
JNull    == [t |-> "null", v |-> 0]
JArr(a)  == [t |-> "arr",  v |-> a]
JObj(f)  == [t |-> "obj",  v |-> f]

\* an object, or a map[string]float64, with no entry
EmptyMap == [k \in {} |-> 0]

\* m[k] = v on a Go map
MapPut(m, k, v) == [x \in (DOMAIN m) \cup {k} |-> IF x = k THEN v ELSE m[x]]

\* delete(m, k) on a Go map
MapDelete(m, k) == [x \in (DOMAIN m) \ {k} |-> m[x]]

\* fullKey with the separator written also after an empty prefix
fullKeyAlwaysSeparated(prefix, key) == prefix \o Str_ \o key

\* fullKey of parseAttributes (lines 284-287)
fullKeyOf(prefix, key) ==
    IF prefix # <<>> THEN prefix \o Str_ \o key ELSE key

RECURSIVE parseAttributes(_, _, _)
RECURSIVE parseEntries(_, _, _, _)

\* the type switch of parseAttributes (lines 288-301) on one value: the
\* maps `attributes` can be after it (json never decodes to int, line 291)
parseValue(fullKey, value, attributes) ==
    CASE value.t = "num"  -> { MapPut(attributes, fullKey, value.v) }
      [] value.t = "bool" -> { MapPut(attributes, fullKey, IF value.v THEN 1 ELSE 0) }
      [] value.t = "obj"  -> parseAttributes(fullKey, value.v, attributes)
      [] OTHER            -> { attributes }

\* the range loop of line 283 over the entries `keys` still to visit; Go
\* ranges over a map in an unspecified order, so every order is taken
parseEntries(prefix, data, keys, attributes) ==
    IF keys = {} THEN { attributes }
    ELSE UNION { UNION { parseEntries(prefix, data, keys \ {k}, a) :
                           a \in parseValue(fullKeyOf(prefix, k), data[k], attributes) } :
                 k \in keys }

\* parseAttributes (lines 282-303): the set of maps `attributes` can be
\* when the call returns
parseAttributes(prefix, data, attributes) ==
    parseEntries(prefix, data, DOMAIN data, attributes)

-----------------------------------------------------------------------------
(* Flattening: parseAttributes("", doc, {}) on every document of at most   *)
(* MaxNodes entries over keys that collide when joined, and on the spec's  *)
(* two examples.                                                           *)

MaxNodes == 3

S_x   == <<"x">>
S_y   == <<"y">>
S_z   == <<"z">>
S_a   == <<"a">>
S_b   == <<"b">>
S_x_x == <<"x","_","x">>
S_x_y == <<"x","_","y">>
S_text == <<"t","e","x","t">>

FlatKeys == { S_x, S_x_x, <<>> }

FlatLeaves == { JNum(7), JBool(TRUE), JBool(FALSE), JStr(S_text), JNull,
                JArr(<<JNum(7)>>), JObj(EmptyMap) }

\* {"a":1,"b":2}
FlatExample == (S_a :> JNum(1)) @@ (S_b :> JNum(2))

\* {"x":{"y":7,"z":"text"}}
NestedExample == S_x :> JObj((S_y :> JNum(7)) @@ (S_z :> JStr(S_text)))

RECURSIVE NumEntries(_)
\* number of key/value pairs of an object, at every depth
NumEntries(obj) ==
    LET RECURSIVE Sum(_)
        Sum(ks) == IF ks = {} THEN 0
                   ELSE LET k == CHOOSE x \in ks : TRUE
                        IN  1 + (IF obj[k].t = "obj" THEN NumEntries(obj[k].v) ELSE 0)
                              + Sum(ks \ {k})
    IN  Sum(DOMAIN obj)

RECURSIVE ObjPaths(_)
\* the paths (sequences of keys) of the objects of a document, the root included
ObjPaths(obj) ==
    { <<>> } \cup
    UNION { { <<k>> \o p : p \in ObjPaths(obj[k].v) } :
            k \in { x \in DOMAIN obj : obj[x].t = "obj" } }

RECURSIVE AddAt(_, _, _, _)
\* the document with the entry key -> value added to the object at `path`
AddAt(obj, path, key, value) ==
    IF path = <<>> THEN MapPut(obj, key, value)
    ELSE MapPut(obj, Head(path),
                JObj(AddAt(obj[Head(path)].v, Tail(path), key, value)))

RECURSIVE ObjAt(_, _)
ObjAt(obj, path) ==
    IF path = <<>> THEN obj ELSE ObjAt(obj[Head(path)].v, Tail(path))

InitFlatten ==
    /\ RestInit
    /\ \E d \in {EmptyMap, FlatExample, NestedExample} :
          call = [NoCall EXCEPT !.in = d]

\* the tool's document grows by one entry
AddEntry ==
    /\ ~call.done
    /\ NumEntries(call.in) < MaxNodes
    /\ \E path \in ObjPaths(call.in), k \in FlatKeys, v \in FlatLeaves :
          /\ k \notin DOMAIN ObjAt(call.in, path)
          /\ call' = [call EXCEPT !.in = AddAt(call.in, path, k, v)]
    /\ UNCHANGED progVars

\* parseAttributes("", doc, attributes) with attributes empty (lines 435, 454)
FlattenDoc ==
    /\ ~call.done
    /\ \E result \in parseAttributes(<<>>, call.in, EmptyMap) :
          call' = [op |-> "flatten", in |-> call.in, out |-> result, done |-> TRUE]
    /\ UNCHANGED progVars

NextFlatten == AddEntry \/ FlattenDoc

SpecFlatten == InitFlatten /\ [][NextFlatten]_vars

RECURSIVE MetricLeaves(_)
\* the numeric and boolean leaves of a document: << path, value >> pairs
MetricLeaves(obj) ==
    UNION { IF obj[k].t \in {"num", "bool"} THEN { << <<k>>, obj[k] >> }
            ELSE IF obj[k].t = "obj"
                 THEN { << <<k>> \o l[1], l[2] >> : l \in MetricLeaves(obj[k].v) }
                 ELSE {} :
            k \in DOMAIN obj }

RECURSIVE Joined(_)
\* the segments of a path joined by '_', no separator before the first
Joined(path) ==
    IF Len(path) = 1 THEN path[1]
    ELSE Joined(SubSeq(path, 1, Len(path) - 1)) \o Str_ \o path[Len(path)]

RECURSIVE SkipEmpty(_)
\* a path without its leading empty segments (the last segment is kept)
SkipEmpty(path) ==
    IF Len(path) > 1 /\ Head(path) = <<>> THEN SkipEmpty(Tail(path)) ELSE path

LeafValue(v) == IF v.t = "bool" THEN (IF v.v THEN 1 ELSE 0) ELSE v.v

\* C10 as the spec states it: the mapping holds exactly the '_'-joined
\* paths of the numeric and boolean leaves, each with its leaf's value.
C10_AsStated ==
    (call.op = "flatten" /\ call.done) =>
        /\ DOMAIN call.out = { Joined(l[1]) : l \in MetricLeaves(call.in) }
        /\ \A l \in MetricLeaves(call.in) : call.out[Joined(l[1])] = LeafValue(l[2])

\* C10, amended: flatten with an empty prefix writes exactly the keys that
\* are the '_'-joined paths of the numeric and boolean leaves, where no
\* separator is written after a prefix that is still empty (leading empty
\* key segments are skipped); each key holds the value of a leaf with that
\* joined path (booleans as 1 or 0): the leaf's own value when no other leaf
\* shares its joined path, else the value of one of the leaves sharing it.
\* Nothing is written for string, null or array values; {"a":1,"b":2} maps
\* to itself and {"x":{"y":7,"z":"text"}} to exactly {"x_y":7}.
C10_Flatten ==
    (call.op = "flatten" /\ call.done) =>
        LET leaves == MetricLeaves(call.in)
            keyOf(l) == Joined(SkipEmpty(l[1]))
        IN  /\ DOMAIN call.out = { keyOf(l) : l \in leaves }
            /\ \A k \in DOMAIN call.out :
                  \E l \in leaves : keyOf(l) = k /\ call.out[k] = LeafValue(l[2])
            /\ call.in = FlatExample =>
                  call.out = (S_a :> 1) @@ (S_b :> 2)
            /\ call.in = NestedExample => call.out = (S_x_y :> 7)

\* a nested document with a numeric leaf next to a string has been flattened
C10_Witness ==
    /\ call.op = "flatten" /\ call.done
    /\ \E l \in MetricLeaves(call.in) : Len(l[1]) = 2
    /\ \E k \in DOMAIN call.in :
          call.in[k].t = "obj" /\ \E j \in DOMAIN call.in[k].v : call.in[k].v[j].t = "str"

-----------------------------------------------------------------------------
(* The diagnostic tool and the process runner *)

\* ---- JSON text ----
\* What the tool writes is a JSON text: a value tagged like a decoded one,
\* except that a number says whether its literal is an integer one, and an
\* object is the sequence of its members << key, value >> in the order of
\* the text, where a key can stand more than once.

JNumber(n, int) == [t |-> "number", v |-> n, int |-> int]
JObject(members) == [t |-> "object", v |-> members]

RECURSIVE KeysInOrder(_)
\* the keys of a decoded object, one after the other
KeysInOrder(keys) ==
    IF keys = {} THEN <<>>
    ELSE With(CHOOSE x \in keys : TRUE,
              LAMBDA k : << k >> \o KeysInOrder(keys \ {k}))

RECURSIVE TextOf(_)
\* a JSON text that decodes to the value v, numbers as integer literals
TextOf(v) ==
    CASE v.t = "obj" ->
           With(KeysInOrder(DOMAIN v.v),
                LAMBDA ks : JObject([i \in 1..Len(ks) |->
                                       << ks[i], TextOf(v.v[ks[i]]) >>]))
      [] v.t = "arr" -> JArr([i \in 1..Len(v.v) |-> TextOf(v.v[i])])
      [] v.t = "num" -> JNumber(v.v, TRUE)
      [] OTHER -> v

RECURSIVE Decoded(_)
RECURSIVE DecodedMembers(_, _)
\* a JSON text decoded into an interface{}: an object becomes a
\* map[string]interface{}, an array a []interface{}, a number a float64
Decoded(x) ==
    CASE x.t = "object" -> JObj(DecodedMembers(x.v, EmptyMap))
      [] x.t = "arr"    -> JArr([i \in 1..Len(x.v) |-> Decoded(x.v[i])])
      [] x.t = "number" -> JNum(x.v)
      [] OTHER          -> x

\* the members of an object stored into the map m in the order of the text:
\* a later member replaces an earlier one that has its key
DecodedMembers(members, m) ==
    IF members = <<>> THEN m
    ELSE DecodedMembers(Tail(members),
                        MapPut(m, Head(members)[1], Decoded(Head(members)[2])))

\* An output of the tool: whether it is a JSON text, the text, and with the
\* text what it decodes to as an interface{}.
\* output that is no JSON text (also the empty output of a tool not started)
Garbage == [valid |-> FALSE, text |-> JNull, json |-> JNull]
\* the output that is the JSON text x, and one for the decoded document v
JsonText(x) == [valid |-> TRUE, text |-> x, json |-> Decoded(x)]
Json(v) == [valid |-> TRUE, text |-> TextOf(v), json |-> v]

\* runSmartctlCmd (lines 52-61) on a tool that behaves as `proc` says:
\* proc.started is false when the executable could not be started, and then
\* ProcessState is nil and ExitCode() is -1; a tool killed by a signal has
\* proc.exit = -1; err is the ExitError of a non-zero exit
runSmartctlCmd(proc) ==
    [ output   |-> IF proc.started THEN proc.out ELSE Garbage,
      exitCode |-> IF proc.started THEN proc.exit ELSE -1,
      err      |-> ~proc.started \/ proc.exit # 0 ]

\* the extractors' test with the exit codes left out: any error gives up
GivesUpOnAnyError(err, exitCode) == err

\* the test of lines 307, 373, 417 and 442: the extractor gives up
GivesUp(err, exitCode) ==
    err /\ exitCode # 0 /\ exitCode # 2 /\ exitCode # 4 /\ exitCode # 6

\* ---- json.Unmarshal (encoding/json of Go 1.18) ----

\* The Go types the program decodes into.  A struct is the sequence of its
\* fields, each with the name its json tag gives it.
GoString == [k |-> "string"]
GoInt    == [k |-> "int"]
GoBool   == [k |-> "bool"]
GoMap    == [k |-> "map"]
GoSlice(elem) == [k |-> "slice", elem |-> elem]
GoStruct(fields) == [k |-> "struct", fields |-> fields]
Field(tag, type) == [tag |-> tag, type |-> type]

RECURSIVE Zero(_)
\* the zero value of a type: a struct is a function from its tags, a slice
\* its length with its backing array, a nil map the map with no entry
Zero(type) ==
    CASE type.k = "string" -> <<>>
      [] type.k = "int"    -> 0
      [] type.k = "bool"   -> FALSE
      [] type.k = "map"    -> EmptyMap
      [] type.k = "slice"  -> [len |-> 0, arr |-> <<>>]
      [] type.k = "struct" ->
           [ tag \in { type.fields[i].tag : i \in 1..Len(type.fields) } |->
               Zero(type.fields[CHOOSE i \in 1..Len(type.fields) :
                                    type.fields[i].tag = tag].type) ]

\* the elements of a slice
Elements(slice) == SubSeq(slice.arr, 1, slice.len)

IsLetter(c) == contains(UpperCase, c) \/ contains(LowerCase, c)

\* the fold a field is given by foldFunc (fold.go), for a name in ASCII:
\* the key has the name's letters in either case and its other characters
\* as they are; for a 'k' the key may have the Kelvin sign U+212A, for an
\* 's' the long s U+017F
equalFold(name, key) ==
    /\ Len(key) = Len(name)
    /\ \A i \in 1..Len(name) :
          \/ key[i] = name[i]
          \/ IsLetter(name[i]) /\ lower(key[i]) = lower(name[i])
          \/ lower(name[i]) = "k" /\ key[i] = "U+212A"
          \/ lower(name[i]) = "s" /\ key[i] = "U+017F"

\* the field a key of an object is decoded into: the one of that very name,
\* otherwise the first whose name folds to the key; 0 when there is none
FieldIndex(fields, key) ==
    LET exact == { i \in 1..Len(fields) : fields[i].tag = key }
        folds == { i \in 1..Len(fields) : equalFold(fields[i].tag, key) }
    IN  IF exact # {} THEN CHOOSE i \in exact : TRUE
        ELSE IF folds # {} THEN CHOOSE i \in folds : \A j \in folds : i <= j
        ELSE 0

RECURSIVE unmarshalValue(_, _, _)
RECURSIVE unmarshalObject(_, _, _, _)
RECURSIVE unmarshalArray(_, _, _, _)
\* The JSON text x decoded into a Go value of the given type that holds cur:
\* v is what it holds afterwards, err says an UnmarshalTypeError was saved.
\* A value of the wrong kind leaves the Go value as it is and decoding goes
\* on; null empties a slice or a map and leaves anything else as it is; a
\* number fits an int only as an integer literal (of the 64 bits of an int,
\* which the numbers here never exceed).
unmarshalValue(type, cur, x) ==
    IF x.t = "null"
    THEN [err |-> FALSE, v |-> IF type.k \in {"slice", "map"} THEN Zero(type) ELSE cur]
    ELSE CASE type.k = "string" ->
                IF x.t = "str" THEN [err |-> FALSE, v |-> x.v]
                ELSE [err |-> TRUE, v |-> cur]
           [] type.k = "int" ->
                IF x.t = "number" /\ x.int THEN [err |-> FALSE, v |-> x.v]
                ELSE [err |-> TRUE, v |-> cur]
           [] type.k = "bool" ->
                IF x.t = "bool" THEN [err |-> FALSE, v |-> x.v]
                ELSE [err |-> TRUE, v |-> cur]
           [] type.k = "map" ->
                IF x.t = "object" THEN [err |-> FALSE, v |-> DecodedMembers(x.v, cur)]
                ELSE [err |-> TRUE, v |-> cur]
           [] type.k = "struct" ->
                IF x.t = "object"
                THEN With([err |-> FALSE, v |-> cur],
                          LAMBDA acc : unmarshalObject(type.fields, acc, x.v, 1))
                ELSE [err |-> TRUE, v |-> cur]
           [] type.k = "slice" ->
                IF x.t = "arr"
                THEN With([err |-> FALSE, v |-> cur],
                          LAMBDA acc : unmarshalArray(type.elem, acc, x.v, 0))
                ELSE [err |-> TRUE, v |-> cur]

\* The members of an object from the i-th on decoded one after the other
\* into a struct; acc is the struct (v) and the saved error (err) so far.
\* A member of no field is passed over, a member of a field that was
\* decoded before is decoded into what that field holds by then.
unmarshalObject(fields, acc, members, i) ==
    IF i > Len(members) THEN acc
    ELSE With(FieldIndex(fields, members[i][1]), LAMBDA f :
           IF f = 0 THEN unmarshalObject(fields, acc, members, i + 1)
           ELSE With(unmarshalValue(fields[f].type, acc.v[fields[f].tag], members[i][2]),
                     LAMBDA e :
                With([err |-> acc.err \/ e.err,
                      v   |-> [acc.v EXCEPT ![fields[f].tag] = e.v]],
                     LAMBDA next : unmarshalObject(fields, next, members, i + 1))))

\* The elements of an array from the (i+1)-th on decoded into a slice; acc
\* is the slice (v) and the saved error (err) so far.  Each is decoded into
\* the element the slice has at its place, which holds what an earlier
\* array left there unless the slice was grown since (a full slice is grown
\* to half as much again, to 4 at least); the slice ends with the length of
\* the array.
unmarshalArray(elem, acc, elems, i) ==
    IF i = Len(elems)
    THEN [err |-> acc.err,
          v   |-> IF i = 0 THEN [len |-> 0, arr |-> <<>>] ELSE [acc.v EXCEPT !.len = i]]
    ELSE LET slice == acc.v
             cap == Len(slice.arr)
             newcap == IF cap + cap \div 2 < 4 THEN 4 ELSE cap + cap \div 2
             grown == IF i >= cap
                      THEN [len |-> slice.len,
                            arr |-> Elements(slice) \o
                                    [j \in 1..(newcap - slice.len) |-> Zero(elem)]]
                      ELSE slice
         IN  With(IF i >= grown.len THEN [grown EXCEPT !.len = i + 1] ELSE grown,
                  LAMBDA sized :
             With(unmarshalValue(elem, sized.arr[i + 1], elems[i + 1]), LAMBDA e :
             With([err |-> acc.err \/ e.err, v |-> [sized EXCEPT !.arr[i + 1] = e.v]],
                  LAMBDA next : unmarshalArray(elem, next, elems, i + 1))))

\* json.Unmarshal(output, &result) with result the zero value of the type:
\* err for output that is no JSON text and for a saved type error
Unmarshal(output, type) ==
    IF ~output.valid THEN [err |-> TRUE, v |-> Zero(type)]
    ELSE unmarshalValue(type, Zero(type), output.text)

\* json.Unmarshal(output, &result) with result a map[string]interface{}
\* (lines 312-313, 447-448): JSON null leaves the map nil and is no error
UnmarshalMap(output) ==
    IF ~output.valid THEN [err |-> TRUE, result |-> EmptyMap]
    ELSE IF output.json.t = "obj" THEN [err |-> FALSE, result |-> output.json.v]
    ELSE IF output.json.t = "null" THEN [err |-> FALSE, result |-> EmptyMap]
    ELSE [err |-> TRUE, result |-> EmptyMap]

\* the document an output decodes to as an interface{}
DocOf(output) == output.json

\* the member `key` of a decoded object; an absent member is like null
Member(obj, key) == IF key \in DOMAIN obj THEN obj[key] ELSE JNull

\* v.(T): the type assertion succeeds
Is(v, kind) == v.t = kind

\* an attribute set, and the nil map an extractor returns for "no result"
Attrs(m) == [nil |-> FALSE, m |-> m]
NilAttrs == [nil |-> TRUE, m |-> EmptyMap]

Digits == <<"0","1","2","3","4","5","6","7","8","9">>
HexLetters == <<"a","b","c","d","e","f">>

\* unicode.IsSpace, the separators of strings.Fields (line 466).  A
\* character a TLA+ string cannot hold is written by its code point.
WhiteSpace ==
    { " ", "\t", "\n", "\f", "\r", "U+000B", "U+0085", "U+00A0", "U+1680",
      "U+2000", "U+2001", "U+2002", "U+2003", "U+2004", "U+2005", "U+2006",
      "U+2007", "U+2008", "U+2009", "U+200A", "U+2028", "U+2029", "U+202F",
      "U+205F", "U+3000" }

IsDigit(c) == contains(Digits, c)
DigitValue(c) == (CHOOSE i \in 1..Len(Digits) : Digits[i] = c) - 1

IsHexLetter(c) == contains(HexLetters, lower(c))
HexDigitValue(c) ==
    IF IsDigit(c) THEN DigitValue(c)
    ELSE 9 + (CHOOSE i \in 1..Len(HexLetters) : HexLetters[i] = lower(c))

RECURSIVE DecimalValue(_)
DecimalValue(tok) ==
    IF tok = <<>> THEN 0
    ELSE 10 * DecimalValue(SubSeq(tok, 1, Len(tok) - 1)) + DigitValue(tok[Len(tok)])

RECURSIVE HexValue(_)
HexValue(tok) ==
    IF tok = <<>> THEN 0
    ELSE 16 * HexValue(SubSeq(tok, 1, Len(tok) - 1)) + HexDigitValue(tok[Len(tok)])

\* strings.Fields(rawStr)[0]  (line 466), <<>> when there is no field
FirstField(rawStr) ==
    LET starts == { i \in 1..Len(rawStr) : rawStr[i] \notin WhiteSpace }
    IN  IF starts = {} THEN <<>>
        ELSE LET b == CHOOSE i \in starts : \A j \in starts : i <= j
                 stops == { i \in b..Len(rawStr) : rawStr[i] \in WhiteSpace }
                 e == IF stops = {} THEN Len(rawStr)
                      ELSE (CHOOSE i \in stops : \A j \in stops : i <= j) - 1
             IN  SubSeq(rawStr, b, e)

\* ---- strconv.ParseFloat(s, 64)  (line 470) ----
\* A float64 is written as the number it stands for: an integer, a record
\* [num, den] in lowest terms when it is no integer, or one of "+Inf",
\* "-Inf", "NaN".  The rounding of a decimal to the nearest float64 is not
\* modelled, and a value is computed only while its numerator and its
\* denominator stay below 2^31.


\* the digits of the largest decimal that is still a float64: a decimal of
\* 309 integer digits at or above it is out of range
MaxFloatDigits ==
    <<"1","7","9","7","6","9","3","1","3","4","8","6","2","3","1","5","8",
      "0","7","9","3">>

RECURSIVE Pow(_, _)
Pow(b, n) == IF n = 0 THEN 1 ELSE b * Pow(b, n - 1)

RECURSIVE GCD(_, _)
GCD(a, b) == IF b = 0 THEN a ELSE GCD(b, a % b)

Rat(n, d) ==
    LET g == GCD(IF n < 0 THEN -n ELSE n, d)
    IN  IF n = 0 THEN 0
        ELSE IF d \div g = 1 THEN n \div g
        ELSE [num |-> n \div g, den |-> d \div g]

StripSign(s) == IF s # <<>> /\ s[1] \in {"+", "-"} THEN Tail(s) ELSE s
IsNegative(s) == s # <<>> /\ s[1] = "-"

\* special(s): the spellings of infinity and NaN, <<>> if s is none
special(s) ==
    LET lowered(x) == [i \in 1..Len(x) |-> lower(x[i])]
    IN  IF lowered(StripSign(s)) \in
              { <<"i","n","f">>, <<"i","n","f","i","n","i","t","y">> }
        THEN << IF IsNegative(s) THEN "-Inf" ELSE "+Inf" >>
        ELSE IF lowered(s) = <<"n","a","n">> THEN << "NaN" >>
        ELSE <<>>

\* the base prefix readFloat looks for after the sign
IsHexFloat(b) == Len(b) > 2 /\ b[1] = "0" /\ lower(b[2]) = "x"

\* underscoreOK: an underscore stands between two digits, or between a base
\* prefix and a digit
underscoreOK(s) ==
    LET b == StripSign(s)
        prefix == Len(b) >= 2 /\ b[1] = "0" /\ lower(b[2]) \in {"b", "o", "x"}
        hex == prefix /\ lower(b[2]) = "x"
        first == IF prefix THEN 3 ELSE 1
        DigitAt(i) == IsDigit(b[i]) \/ (hex /\ IsHexLetter(b[i]))
    IN  \A i \in first..Len(b) :
            b[i] = "_" =>
               /\ (i > first /\ DigitAt(i - 1)) \/ (prefix /\ i = first)
               /\ i < Len(b) /\ DigitAt(i + 1)

\* the mantissa and the exponent text of a number body: the parts before
\* and after the first exponent character; none |-> TRUE without one
SplitExponent(body, expChar) ==
    LET at == { i \in 1..Len(body) : lower(body[i]) = expChar }
    IN  IF at = {} THEN [mant |-> body, exp |-> <<>>, none |-> TRUE]
        ELSE LET i == CHOOSE x \in at : \A y \in at : x <= y
             IN  [mant |-> SubSeq(body, 1, i - 1),
                  exp  |-> SubSeq(body, i + 1, Len(body)), none |-> FALSE]

\* the mantissa loop of readFloat: digits, underscores and at most one
\* point, with a digit among them
MantissaOK(m, hex) ==
    /\ \A i \in 1..Len(m) :
          IsDigit(m[i]) \/ m[i] \in {"_", "."} \/ (hex /\ IsHexLetter(m[i]))
    /\ Cardinality({ i \in 1..Len(m) : m[i] = "." }) <= 1
    /\ \E i \in 1..Len(m) : IsDigit(m[i]) \/ (hex /\ IsHexLetter(m[i]))

\* the exponent of readFloat: an optional sign, a digit, digits or underscores
ExponentOK(x) ==
    LET d == StripSign(x)
    IN  /\ d # <<>>
        /\ IsDigit(d[1])
        /\ \A i \in 1..Len(d) : IsDigit(d[i]) \/ d[i] = "_"


MantissaDigits(m) == SelectSeq(m, LAMBDA c : c \notin {"_", "."})

\* the number of digits behind the point
FractionLen(m) ==
    LET dot == { i \in 1..Len(m) : m[i] = "." }
    IN  IF dot = {} THEN 0
        ELSE Cardinality({ i \in 1..Len(m) : i > (CHOOSE x \in dot : TRUE) /\ m[i] # "_" })

ExponentValue(x) ==
    IF x = <<>> THEN 0
    ELSE LET e == DecimalValue(SelectSeq(StripSign(x), LAMBDA c : c # "_"))
         IN  IF IsNegative(x) THEN -e ELSE e

RECURSIVE StripZeros(_)
StripZeros(ds) == IF ds # <<>> /\ ds[1] = "0" THEN StripZeros(Tail(ds)) ELSE ds

RECURSIVE DigitsBelow(_, _)
\* the digit string ds, continued with zeros, is below the digit string ts
DigitsBelow(ds, ts) ==
    IF ts = <<>> THEN FALSE
    ELSE LET d == IF ds = <<>> THEN 0 ELSE DigitValue(ds[1])
             t == DigitValue(ts[1])
         IN  IF d < t THEN TRUE
             ELSE IF d > t THEN FALSE
             ELSE IF Len(ts) = 1 THEN TRUE
             ELSE DigitsBelow(IF ds = <<>> THEN <<>> ELSE Tail(ds), Tail(ts))

RECURSIVE BitLen(_)
BitLen(n) == IF n = 0 THEN 0 ELSE 1 + BitLen(n \div 2)

\* mant * base^k as a float64, <<>> when it is out of range (ErrRange)
Scaled(mant, base, k) ==
    IF k >= 0 THEN mant * Pow(base, k) ELSE Rat(mant, Pow(base, -k))

DecimalFloat(m, x, neg) ==
    LET sig == StripZeros(MantissaDigits(m))
        k   == ExponentValue(x) - FractionLen(m)
        mag == Len(sig) + k    \* the value is in [10^(mag-1), 10^mag)
    IN  IF sig = <<>> \/ mag < -323 THEN << 0 >>
        ELSE IF mag > 309 \/ (mag = 309 /\ ~DigitsBelow(sig, MaxFloatDigits)) THEN <<>>
        ELSE << Scaled(IF neg THEN -DecimalValue(sig) ELSE DecimalValue(sig), 10, k) >>

HexFloat(m, x, neg) ==
    LET sig == StripZeros(MantissaDigits(m))
        k   == ExponentValue(x) - 4 * FractionLen(m)
        v   == HexValue(sig)
    IN  IF sig = <<>> \/ BitLen(v) + k < -1074 THEN << 0 >>
        ELSE IF BitLen(v) + k > 1024 THEN <<>>
        ELSE << Scaled(IF neg THEN -v ELSE v, 2, k) >>

\* strconv.ParseFloat(s, 64): <<>> for an error, else << value >>
ParseFloat(s) ==
    LET b    == StripSign(s)
        hex  == IsHexFloat(b)
        body == IF hex THEN SubSeq(b, 3, Len(b)) ELSE b
        p    == SplitExponent(body, IF hex THEN "p" ELSE "e")
    IN  IF special(s) # <<>> THEN special(s)
        ELSE IF ~MantissaOK(p.mant, hex) THEN <<>>
        ELSE IF p.none /\ hex THEN <<>>
        ELSE IF ~p.none /\ ~ExponentOK(p.exp) THEN <<>>
        ELSE IF ~underscoreOK(s) THEN <<>>
        ELSE IF hex THEN HexFloat(p.mant, p.exp, IsNegative(s))
        ELSE DecimalFloat(p.mant, p.exp, IsNegative(s))

\* parseRawValue (lines 465-475): <<>> for nil, else << value >>
parseRawValue(rawStr) ==
    LET tok == FirstField(rawStr)
    IN  IF tok = <<>> THEN <<>> ELSE ParseFloat(tok)

\* the body of the table loops (lines 401-408, 345-348)
PutAttribute(attributes, name, value, rawString) ==
    LET rawValue == parseRawValue(rawString)
        a1 == MapPut(attributes, name, value)
    IN  IF rawValue # <<>>
        THEN MapPut(a1, name \o <<"_","r","a","w">>, rawValue[1]) ELSE a1

\* ---- smartSat ----

\* struct{ Passed bool } (lines 389-391, 424-426)
SmartStatusType == GoStruct(<< Field(S_passed, GoBool) >>)

\* the element type of Table (lines 380-387)
SatAttrType ==
    GoStruct(<< Field(S_id, GoInt), Field(S_name, GoString), Field(S_value, GoInt),
                Field(S_raw, GoStruct(<< Field(S_string, GoString) >>)) >>)

\* the type of result in smartSat (lines 378-392)
SatResultType ==
    GoStruct(<< Field(S_ata_smart_attributes,
                      GoStruct(<< Field(S_table, GoSlice(SatAttrType)) >>)),
                Field(S_smart_status, SmartStatusType) >>)

RECURSIVE SatLoop(_, _)
\* the loop of lines 400-409 over the remaining table
SatLoop(table, attributes) ==
    IF table = <<>> THEN attributes
    ELSE LET attr == Head(table)
         IN  With(PutAttribute(attributes, attr[S_name], attr[S_value],
                               attr[S_raw][S_string]),
                  LAMBDA next : SatLoop(Tail(table), next))

\* smartSat (lines 371-413): the results the call can return
smartSat(proc) ==
    LET r == runSmartctlCmd(proc)
    IN  IF GivesUp(r.err, r.exitCode) THEN { NilAttrs }
        ELSE With(Unmarshal(r.output, SatResultType), LAMBDA u :
               LET result == u.v
               IN  IF u.err THEN { NilAttrs }
                   ELSE With(Elements(result[S_ata_smart_attributes][S_table]),
                             LAMBDA table :
                        With(SatLoop(table, EmptyMap), LAMBDA attributes :
                          { Attrs(MapPut(attributes, S_smart_passed,
                                     boolToFloat(result[S_smart_status][S_passed]))) })))

\* ---- smartNvme ----

\* the type of result in smartNvme (lines 422-427)
NvmeResultType ==
    GoStruct(<< Field(S_nvme_smart_health_information_log, GoMap),
                Field(S_smart_status, SmartStatusType) >>)

\* smartNvme (lines 415-438)
smartNvme(proc) ==
    LET r == runSmartctlCmd(proc)
    IN  IF GivesUp(r.err, r.exitCode) THEN { NilAttrs }
        ELSE With(Unmarshal(r.output, NvmeResultType), LAMBDA u :
               LET result == u.v
               IN  IF u.err THEN { NilAttrs }
                   ELSE With(result[S_nvme_smart_health_information_log], LAMBDA log :
                          { Attrs(MapPut(a, S_smart_passed,
                                     boolToFloat(result[S_smart_status][S_passed]))) :
                            a \in parseAttributes(<<>>, log, EmptyMap) }))

\* ---- smartScsi ----

\* the deletes of lines 457-460
ScsiDeletes(attributes) ==
    MapDelete(MapDelete(MapDelete(MapDelete(attributes,
        S_json_format_version), S_smartctl), S_device), S_smart_status)

\* smartScsi (lines 440-463)
smartScsi(proc) ==
    LET r == runSmartctlCmd(proc)
    IN  IF GivesUp(r.err, r.exitCode) THEN { NilAttrs }
        ELSE LET u == UnmarshalMap(r.output)
             IN  IF u.err THEN { NilAttrs }
                 ELSE { Attrs(ScsiDeletes(a)) :
                        a \in parseAttributes(<<>>, u.result, EmptyMap) }

\* ---- smartMegaraid ----

\* the deletes of lines 360-366
MegaraidDeletes(attributes) ==
    MapDelete(MapDelete(MapDelete(ScsiDeletes(attributes),
        S_ata_smart_attributes), S_scsi_grown_defect_list), S_scsi_error_counter_log)

\* attr[key].(string) and attr[key].(float64) with the result of a failed
\* assertion, the zero value (lines 339-340, 342)
StrField(e, key)  == IF e.t = "obj" /\ Member(e.v, key).t = "str"
                     THEN Member(e.v, key).v ELSE <<>>
NumField(e, key)  == IF e.t = "obj" /\ Member(e.v, key).t = "num"
                     THEN Member(e.v, key).v ELSE 0
\* lines 341-342: raw["string"] of attr["raw"], "" when either is missing
RawString(e) ==
    IF e.t = "obj" /\ Member(e.v, S_raw).t = "obj"
    THEN StrField(Member(e.v, S_raw), S_string) ELSE <<>>

\* the table the loop of line 337 ranges over: result["ata_smart_attributes"]
\* ["table"] when the assertions of lines 335-336 succeed, else none
MegaraidTable(result) ==
    LET asa == Member(result, S_ata_smart_attributes)
    IN  IF asa.t = "obj" /\ Member(asa.v, S_table).t = "arr"
        THEN Member(asa.v, S_table).v ELSE <<>>

RECURSIVE MegaraidAtaLoop(_, _)
\* the loop of lines 337-350: elements that are no objects are passed over
MegaraidAtaLoop(table, attributes) ==
    IF table = <<>> THEN attributes
    ELSE LET item == Head(table)
         IN  MegaraidAtaLoop(Tail(table),
                 IF Is(item, "obj")
                 THEN PutAttribute(attributes, StrField(item, S_name),
                                   NumField(item, S_value), RawString(item))
                 ELSE attributes)

\* smartMegaraid (lines 305-369)
smartMegaraid(proc) ==
    LET r == runSmartctlCmd(proc)
    IN  IF GivesUp(r.err, r.exitCode) THEN { NilAttrs }
        ELSE LET u == UnmarshalMap(r.output)
                 deviceInfo == Member(u.result, S_device)
             IN  IF u.err THEN { NilAttrs }
                 ELSE IF ~Is(deviceInfo, "obj") THEN { NilAttrs }
                 ELSE IF ~Is(Member(deviceInfo.v, S_protocol), "str") THEN { NilAttrs }
                 ELSE LET protocol == Member(deviceInfo.v, S_protocol).v
                      IN  IF protocol = S_ATA
                          THEN { Attrs(MegaraidDeletes(
                                    MegaraidAtaLoop(MegaraidTable(u.result), EmptyMap))) }
                          ELSE IF protocol = S_SCSI
                          THEN { Attrs(MegaraidDeletes(a)) :
                                 a \in parseAttributes(<<>>, u.result, EmptyMap) }
                          ELSE { Attrs(MegaraidDeletes(EmptyMap)) }

\* the extractor collect calls for a family (lines 240-247)
Extract(family, proc) ==
    CASE family = "megaraid" -> smartMegaraid(proc)
      [] family = "sat"      -> smartSat(proc)
      [] family = "nvme"     -> smartNvme(proc)
      [] family = "scsi"     -> smartScsi(proc)

-----------------------------------------------------------------------------
(* The extractors: each of the four applied to every behaviour of the tool *)
(* (not started, or an exit code with an output) over a family of          *)
(* documents built from well-formed and ill-formed blocks.                 *)

MaxExitCode == 8

\* an exit code of the tool; -1 is a tool killed by a signal
ExitCodes == -1..MaxExitCode

S_5 == <<"5">>
S_30MinMax == <<"3","0"," ","(","M","i","n","/","M","a","x"," ","2","0","/","4","0",")">>
S_48h30m == <<"4","8","h","+","3","0","m">>
S_yes == <<"y","e","s">>

\* {"id":5,"name":"Reallocated_Sector_Ct","value":100,"raw":{"value":5,"string":"5"}}
TableEntry1 ==
    JObj((S_id :> JNum(5)) @@ (S_name :> JStr(S_Reallocated_Sector_Ct)) @@
         (S_value :> JNum(100)) @@
         (S_raw :> JObj((S_value :> JNum(5)) @@ (S_string :> JStr(S_5)))))

\* {"id":194,"name":"Temperature_Celsius","value":70,"raw":{"string":"30 (Min/Max 20/40)"}}
TableEntry2 ==
    JObj((S_id :> JNum(194)) @@ (S_name :> JStr(S_Temperature_Celsius)) @@
         (S_value :> JNum(70)) @@ (S_raw :> JObj(S_string :> JStr(S_30MinMax))))

\* {"name":"Temperature_Celsius","value":"70"}: the value is no number
TableEntryBad ==
    JObj((S_name :> JStr(S_Temperature_Celsius)) @@ (S_value :> JStr(S_48h30m)))

\* The blocks a document is built from.  Each is << >> (absent) or << value >>.
FormatVersionBlocks ==
    { <<>>, << JArr(<<JNum(1), JNum(0)>>) >>, << JNum(1) >> }
SmartctlBlocks ==
    { <<>>, << JObj((S_version :> JArr(<<JNum(7), JNum(2)>>)) @@ (S_exit_status :> JNum(4))) >> }
DeviceBlocksGood ==
    { << JObj((S_name :> JStr(S_sat)) @@ (S_protocol :> JStr(S_ATA))) >>,
      << JObj(S_protocol :> JStr(S_SCSI)) >>,
      << JObj(S_protocol :> JStr(S_NVMe)) >> }
DeviceBlocksBad ==
    { <<>>, << JObj(S_protocol :> JNum(1)) >>, << JStr(S_ATA) >> }
SmartStatusBlocksGood ==
    { <<>>, << JObj(S_passed :> JBool(TRUE)) >>, << JObj(S_passed :> JBool(FALSE)) >> }
SmartStatusBlocksBad ==
    { << JObj(S_passed :> JStr(S_yes)) >> }

\* the family-specific part: << key, value >> or << >>
PayloadsGood ==
    { <<>>,
      << S_ata_smart_attributes, JObj(S_table :> JArr(<<TableEntry1>>)) >>,
      << S_ata_smart_attributes, JObj(S_table :> JArr(<<TableEntry1, TableEntry2>>)) >>,
      << S_nvme_smart_health_information_log,
         JObj((S_temperature :> JNum(30)) @@ (S_critical_warning :> JNum(0))) >>,
      << S_temperature, JObj(S_current :> JNum(30)) >> }
PayloadsBadSat ==
    { << S_ata_smart_attributes, JObj(S_table :> JArr(<<TableEntryBad>>)) >>,
      << S_ata_smart_attributes, JObj(S_table :> JStr(S_yes)) >> }
PayloadsBadNvme ==
    { << S_nvme_smart_health_information_log, JNum(30) >> }

\* the document with the given blocks
Doc(fv, sc, dv, ss, pl) ==
    LET blocks == (S_json_format_version :> fv) @@ (S_smartctl :> sc) @@
                  (S_device :> dv) @@ (S_smart_status :> ss)
        meta == [k \in {x \in DOMAIN blocks : blocks[x] # <<>>} |-> blocks[k][1]]
    IN  IF pl = <<>> THEN meta ELSE MapPut(meta, pl[1], pl[2])

DocsOf(devs, sss, pls) ==
    { Doc(fv, sc, dv, ss, pl) :
        fv \in FormatVersionBlocks, sc \in SmartctlBlocks,
        dv \in devs, ss \in sss, pl \in pls }

AllDocs == DocsOf(DeviceBlocksGood \cup DeviceBlocksBad,
                  SmartStatusBlocksGood \cup SmartStatusBlocksBad,
                  PayloadsGood \cup PayloadsBadSat \cup PayloadsBadNvme)

\* the documents of the shape an extractor expects
ExpectedDocs(family) ==
    CASE family = "sat" ->
           DocsOf(DeviceBlocksGood \cup DeviceBlocksBad, SmartStatusBlocksGood,
                  PayloadsGood \cup PayloadsBadNvme)
      [] family = "nvme" ->
           DocsOf(DeviceBlocksGood \cup DeviceBlocksBad, SmartStatusBlocksGood,
                  PayloadsGood \cup PayloadsBadSat)
      [] family = "scsi" -> AllDocs
      [] family = "megaraid" ->
           DocsOf(DeviceBlocksGood, SmartStatusBlocksGood \cup SmartStatusBlocksBad,
                  PayloadsGood \cup PayloadsBadSat \cup PayloadsBadNvme)

\* s with its letters as capitals, and s with a long s for every 's'
Capitals(s) ==
    [i \in 1..Len(s) |->
        IF contains(LowerCase, s[i])
        THEN UpperCase[CHOOSE j \in 1..Len(LowerCase) : LowerCase[j] = s[i]]
        ELSE s[i]]
LongS(s) == [i \in 1..Len(s) |-> IF s[i] = "s" THEN "U+017F" ELSE s[i]]

\* {"NAME":"Reallocated_Sector_Ct","VALUE":100,"RAW":{"STRING":"5"}}
TableEntryCapitals ==
    JObject(<< << Capitals(S_name), JStr(S_Reallocated_Sector_Ct) >>,
               << Capitals(S_value), JNumber(100, TRUE) >>,
               << Capitals(S_raw), JObject(<< << Capitals(S_string), JStr(S_5) >> >>) >> >>)

\* {"name":n,"value":v} and {"value":v}
TableEntryOf(n, v) ==
    JObject(<< << S_name, JStr(n) >>, << S_value, JNumber(v, TRUE) >> >>)
TableValue(v) == JObject(<< << S_value, JNumber(v, TRUE) >> >>)

TableOf(key, entries) ==
    << key, JObject(<< << S_table, JArr(entries) >> >>) >>

\* Documents given as texts: keys in capitals and with the long s, a member
\* of the wrong kind under a key in capitals, the attribute table four
\* times over, and a value that is no integer.
\* {"ATA_SMART_ATTRIBUTES":{"table":[<capitals>]},"SMART_STATUS":{"PASSED":true},
\*  "NVME_SMART_HEALTH_INFORMATION_LOG":{"Temperature":30}}
TextCapitals ==
    JObject(<< TableOf(Capitals(S_ata_smart_attributes), << TableEntryCapitals >>),
               << Capitals(S_smart_status),
                  JObject(<< << Capitals(S_passed), JBool(TRUE) >> >>) >>,
               << Capitals(S_nvme_smart_health_information_log),
                  JObject(<< << S_Temperature_Celsius, JNumber(30, TRUE) >> >>) >> >>)
\* {"SMART_STATUS":{"PASSED":"yes"}}
TextCapitalsBad ==
    JObject(<< << Capitals(S_smart_status),
                  JObject(<< << Capitals(S_passed), JStr(S_yes) >> >>) >> >>)
\* {"ſmart_ſtatuſ":{"paſſed":true}}
TextLongS ==
    JObject(<< << LongS(S_smart_status),
                  JObject(<< << LongS(S_passed), JBool(TRUE) >> >>) >> >>)
\* {"ata_smart_attributes":{"table":[{"name":"a","value":1},{"name":"b","value":2},
\*    {"name":"x","value":3},{"name":"y","value":4}]},
\*  "ata_smart_attributes":{"table":[{"value":9}]},
\*  "ATA_SMART_ATTRIBUTES":{"table":[{},{},{"value":7}]},
\*  "smart_status":{"passed":true},"SMART_STATUS":{}}
TextRepeated ==
    JObject(<< TableOf(S_ata_smart_attributes,
                       << TableEntryOf(S_a, 1), TableEntryOf(S_b, 2),
                          TableEntryOf(S_x, 3), TableEntryOf(S_y, 4) >>),
               TableOf(S_ata_smart_attributes, << TableValue(9) >>),
               TableOf(Capitals(S_ata_smart_attributes),
                       << JObject(<<>>), JObject(<<>>), TableValue(7) >>),
               << S_smart_status, JObject(<< << S_passed, JBool(TRUE) >> >>) >>,
               << Capitals(S_smart_status), JObject(<<>>) >> >>)
\* {"ata_smart_attributes":{"table":[{"name":"a","value":1.5}]},
\*  "device":{"protocol":"ATA"}}
TextFraction ==
    JObject(<< TableOf(S_ata_smart_attributes,
                       << JObject(<< << S_name, JStr(S_a) >>,
                                     << S_value, JNumber(Rat(3, 2), FALSE) >> >>) >>),
               << S_device, JObject(<< << S_protocol, JStr(S_ATA) >> >>) >> >>)

TextDocs == { TextCapitals, TextCapitalsBad, TextLongS, TextRepeated, TextFraction }

\* what the tool can write: no JSON, JSON that is no object, or a document
Outputs ==
    { Garbage, Json(JNull), Json(JArr(<<>>)) } \cup { Json(JObj(d)) : d \in AllDocs }
    \cup { JsonText(x) : x \in TextDocs }

Procs ==
    { [started |-> FALSE, exit |-> 0, out |-> Garbage] } \cup
    { [started |-> TRUE, exit |-> e, out |-> o] : e \in ExitCodes, o \in Outputs }

Families == { "sat", "nvme", "scsi", "megaraid" }

InitExtract ==
    /\ RestInit
    /\ \E f \in Families, p \in Procs :
          call = [NoCall EXCEPT !.in = [family |-> f, proc |-> p]]

\* attrs = smartSat(drive), smartNvme(drive), smartScsi(drive) or
\* smartMegaraid(device.BusDevice, device.MegaraidID)   (lines 240-247)
RunExtractor ==
    /\ ~call.done
    /\ \E attrs \in Extract(call.in.family, call.in.proc) :
          call' = [op |-> "extract", in |-> call.in, out |-> attrs, done |-> TRUE]
    /\ UNCHANGED progVars

NextExtract == RunExtractor

SpecExtract == InitExtract /\ [][NextExtract]_vars

Extracted == call.op = "extract" /\ call.done

\* the tool ran and ended with one of the exit codes 0, 2, 4, 6
ExitUsable(proc) == proc.started /\ proc.exit \in {0, 2, 4, 6}

\* the tool wrote a document of the shape the extractor expects
ShapeExpected(family, proc) ==
    /\ proc.out.valid
    /\ DocOf(proc.out).t = "obj"
    /\ DocOf(proc.out).v \in ExpectedDocs(family)

\* C3: for every extractor, exit code 0, 2, 4 or 6 with valid JSON of the
\* expected shape gives an attribute set, and any other exit code (or a
\* tool that did not run) gives no result.
C3_ExitCodes ==
    Extracted =>
        /\ (ExitUsable(call.in.proc) /\ ShapeExpected(call.in.family, call.in.proc))
              => ~call.out.nil
        /\ ~ExitUsable(call.in.proc) => call.out.nil

\* exit code 4 with a well-formed document has yielded an attribute set
C3_Witness ==
    /\ Extracted
    /\ call.in.proc.started /\ call.in.proc.exit = 4
    /\ ShapeExpected(call.in.family, call.in.proc)
    /\ call.in.family = "megaraid"
    /\ call.out.m # EmptyMap

\* the protocol a RAID-passthrough document reports, << >> when none
ProtocolOf(doc) ==
    IF Member(doc, S_device).t = "obj" /\ Member(Member(doc, S_device).v, S_protocol).t = "str"
    THEN Member(Member(doc, S_device).v, S_protocol).v ELSE <<>>

\* the result is an attribute set of an extractor C7 speaks of
C7_Covered ==
    /\ Extracted /\ ~call.out.nil
    /\ DocOf(call.in.proc.out).t = "obj"
    /\ \/ call.in.family \in {"sat", "nvme", "scsi"}
       \/ /\ call.in.family = "megaraid"
          /\ ProtocolOf(DocOf(call.in.proc.out).v) \in {S_ATA, S_SCSI}

\* C7: every attribute set of the SAT, NVMe and SCSI extractors, and of the
\* RAID-passthrough extractor for an ATA or SCSI sub-device, holds
\* smart_passed, 1 when the health-passed field is true and 0 when false.
C7_SmartPassed ==
    C7_Covered =>
        LET doc == DocOf(call.in.proc.out).v
            ss == Member(doc, S_smart_status)
        IN  /\ S_smart_passed \in DOMAIN call.out.m
            /\ (ss.t = "obj" /\ Member(ss.v, S_passed).t = "bool") =>
                  call.out.m[S_smart_passed] = (IF Member(ss.v, S_passed).v THEN 1 ELSE 0)

\* the keys flattening writes for the four non-metric blocks of a document
MetaKeys(doc) ==
    LET metaNames == { S_json_format_version, S_smartctl, S_device, S_smart_status }
        meta == [k \in (DOMAIN doc) \cap metaNames |-> doc[k]]
    IN  UNION { DOMAIN a : a \in parseAttributes(<<>>, meta, EmptyMap) }

\* C8: the attribute set of the SCSI extractor, and of the RAID-passthrough
\* extractor for a SCSI sub-device, holds no key derived from the blocks
\* json_format_version, smartctl, device and smart_status.
C8_NoMetaKeys ==
    ( /\ Extracted /\ ~call.out.nil
      /\ DocOf(call.in.proc.out).t = "obj"
      /\ \/ call.in.family = "scsi"
         \/ /\ call.in.family = "megaraid"
            /\ ProtocolOf(DocOf(call.in.proc.out).v) = S_SCSI )
    => (DOMAIN call.out.m) \cap MetaKeys(DocOf(call.in.proc.out).v) = {}

-----------------------------------------------------------------------------
(* Discovery *)

S_megaraid_ == <<"m","e","g","a","r","a","i","d",",">>

\* the positions of typ where "megaraid," followed by a digit starts
MegaraidAt(typ) ==
    { i \in 1..Len(typ) :
        /\ i + Len(S_megaraid_) <= Len(typ)
        /\ SubSeq(typ, i, i + Len(S_megaraid_) - 1) = S_megaraid_
        /\ IsDigit(typ[i + Len(S_megaraid_)]) }

\* megaraidRegexp.MatchString(typ) for (sat\+)?(megaraid,(\d+))  (lines 48, 91)
MegaraidMatch(typ) == MegaraidAt(typ) # {}

\* getMegaraidDeviceID (lines 223-229): group 2 of the leftmost match
getMegaraidDeviceID(typ) ==
    IF ~MegaraidMatch(typ) THEN <<>>
    ELSE LET b == CHOOSE i \in MegaraidAt(typ) : \A j \in MegaraidAt(typ) : i <= j
             d == b + Len(S_megaraid_)
             e == CHOOSE k \in d..Len(typ) :
                     /\ \A j \in d..k : IsDigit(typ[j])
                     /\ k = Len(typ) \/ ~IsDigit(typ[k + 1])
         IN  SubSeq(typ, b, e)

RECURSIVE FormatInt(_)
\* strconv.FormatInt(n, 10) for n > 0
FormatInt(n) ==
    IF n < 10 THEN << Digits[n + 1] >>
    ELSE FormatInt(n \div 10) \o << Digits[(n % 10) + 1] >>

\* &Device{}
ZeroDevice ==
    [ Name |-> <<>>, Type |-> <<>>, ModelFamily |-> <<>>, ModelName |-> <<>>,
      SerialNumber |-> <<>>, UserCapacity |-> <<>>, BusDevice |-> <<>>,
      MegaraidID |-> <<>> ]

\* the type of result in getDeviceInfo (lines 122-129)
InfoResultType ==
    GoStruct(<< Field(S_model_family, GoString), Field(S_model_name, GoString),
                Field(S_serial_number, GoString),
                Field(S_user_capacity, GoStruct(<< Field(S_bytes, GoInt) >>)) >>)

\* the type of result in getMegaraidDeviceInfo (lines 160-168)
MegaraidInfoResultType ==
    GoStruct(<< Field(S_model_family, GoString), Field(S_model_name, GoString),
                Field(S_serial_number, GoString),
                Field(S_user_capacity, GoStruct(<< Field(S_bytes, GoInt) >>)),
                Field(S_scsi_model_name, GoString) >>)

\* lines 136-139 and 180-183
UserCapacityOf(result) ==
    IF result[S_user_capacity][S_bytes] > 0
    THEN FormatInt(result[S_user_capacity][S_bytes])
    ELSE <<"U","n","k","n","o","w","n">>

\* `if err != nil` of lines 66, 117, 155 and 199: the caller gives up
CallerFails(err, exitCode) == err

\* getDeviceInfo (lines 115-147); proc is the tool run by line 116
getDeviceInfo(proc) ==
    LET r == runSmartctlCmd(proc)
    IN  IF CallerFails(r.err, r.exitCode) THEN ZeroDevice
        ELSE With(Unmarshal(r.output, InfoResultType), LAMBDA u :
               LET result == u.v
               IN  IF u.err THEN ZeroDevice
                   ELSE [ ZeroDevice EXCEPT
                            !.ModelFamily  = result[S_model_family],
                            !.ModelName    = result[S_model_name],
                            !.SerialNumber = result[S_serial_number],
                            !.UserCapacity = UserCapacityOf(result) ])

\* getMegaraidDeviceInfo (lines 149-191): << >> for nil, else << device >>
getMegaraidDeviceInfo(typ, proc) ==
    IF getMegaraidDeviceID(typ) = <<>> THEN <<>>
    ELSE LET r == runSmartctlCmd(proc)
         IN  IF CallerFails(r.err, r.exitCode) THEN <<>>
             ELSE With(Unmarshal(r.output, MegaraidInfoResultType), LAMBDA u :
                    LET result == u.v
                    IN  IF u.err THEN <<>>
                        ELSE << [ ZeroDevice EXCEPT
                                    !.ModelFamily  = result[S_model_family],
                                    !.ModelName    =
                                        IF result[S_scsi_model_name] # <<>>
                                        THEN result[S_scsi_model_name]
                                        ELSE result[S_model_name],
                                    !.SerialNumber = result[S_serial_number],
                                    !.UserCapacity = UserCapacityOf(result) ] >>)

\* the type of result in getMegaraidDeviceType (lines 204-208)
TypeResultType ==
    GoStruct(<< Field(S_device, GoStruct(<< Field(S_protocol, GoString) >>)) >>)

\* getMegaraidDeviceType (lines 193-221); proc is the tool run by line 198
getMegaraidDeviceType(typ, proc) ==
    IF getMegaraidDeviceID(typ) = <<>> THEN S_unknown
    ELSE LET r == runSmartctlCmd(proc)
         IN  IF CallerFails(r.err, r.exitCode) THEN S_unknown
             ELSE With(Unmarshal(r.output, TypeResultType), LAMBDA u :
                    LET protocol == u.v[S_device][S_protocol]
                    IN  IF u.err THEN S_unknown
                        ELSE IF protocol = S_ATA THEN S_sat
                        ELSE IF protocol = S_SCSI THEN S_scsi
                        ELSE S_unknown)

\* the type of result in getDrives (lines 71-77)
ScanResultType ==
    GoStruct(<< Field(S_devices,
                      GoSlice(GoStruct(<< Field(S_name, GoString),
                                          Field(S_type, GoString),
                                          Field(S_open_error, GoString) >>))) >>)

\* the registry key of a RAID-passthrough device (line 100)
MegaraidName(dev, typ) == dev \o Str_ \o getMegaraidDeviceID(typ)

\* one turn of the loop of lines 84-110 on the element `device` of
\* result.Devices, with follow.info the tool run by the info query and
\* follow.proto the tool run by the protocol query
DrivesStep(disks, device, follow) ==
    IF device[S_open_error] # <<>> THEN disks
    ELSE LET dev == device[S_name]
             typ == device[S_type]
         IN  IF MegaraidMatch(typ)
             THEN With(getMegaraidDeviceInfo(typ, follow.info), LAMBDA diskAttrs :
                    IF diskAttrs = <<>> THEN disks
                    ELSE MapPut(disks, MegaraidName(dev, typ),
                           [ diskAttrs[1] EXCEPT
                               !.Type = getMegaraidDeviceType(typ, follow.proto),
                               !.BusDevice = dev,
                               !.MegaraidID = getMegaraidDeviceID(typ),
                               !.Name = MegaraidName(dev, typ) ]))
             ELSE MapPut(disks, dev,
                         [ getDeviceInfo(follow.info) EXCEPT !.Type = typ, !.Name = dev ])

RECURSIVE DrivesLoop(_, _, _)
DrivesLoop(disks, entries, follows) ==
    IF entries = <<>> THEN disks
    ELSE With(DrivesStep(disks, Head(entries), Head(follows)),
              LAMBDA next : DrivesLoop(next, Tail(entries), Tail(follows)))

\* getDrives (lines 63-113); scan is the tool run by line 65 and follows[i]
\* the tools run for the i-th element of result.Devices
getDrives(scan, follows) ==
    LET r == runSmartctlCmd(scan)
    IN  IF CallerFails(r.err, r.exitCode) THEN EmptyMap
        ELSE With(Unmarshal(r.output, ScanResultType), LAMBDA u :
               IF u.err THEN EmptyMap
               ELSE With(Elements(u.v[S_devices]),
                         LAMBDA entries : DrivesLoop(EmptyMap, entries, follows)))

-----------------------------------------------------------------------------
(* Discovery on every scan of at most MaxScanEntries entries, plain and    *)
(* RAID-passthrough, each with the behaviour of its follow-up queries.     *)

MaxScanEntries == 2

S_dev_sda   == <<"/","d","e","v","/","s","d","a">>
S_dev_bus_0 == <<"/","d","e","v","/","b","u","s","/","0">>
S_megaraid_0 == S_megaraid_ \o <<"0">>
S_sat_megaraid_12 == <<"s","a","t","+">> \o S_megaraid_ \o <<"1","2">>
S_denied == <<"d","e","n","i","e","d">>
S_F  == <<"F">>
S_M  == <<"M">>
S_SM == <<"S","M">>
S_S1 == <<"S","1">>
S_S2 == <<"S","2">>

\* the output of `smartctl -i --json=c` for an ATA and for a SCSI device
InfoAta ==
    (S_model_family :> JStr(S_F)) @@ (S_model_name :> JStr(S_M)) @@
    (S_serial_number :> JStr(S_S1)) @@
    (S_user_capacity :> JObj(S_bytes :> JNum(500))) @@
    (S_device :> JObj(S_protocol :> JStr(S_ATA)))
InfoScsi ==
    (S_scsi_model_name :> JStr(S_SM)) @@ (S_model_name :> JStr(S_M)) @@
    (S_serial_number :> JStr(S_S2)) @@
    (S_user_capacity :> JObj(S_bytes :> JNum(0))) @@
    (S_device :> JObj(S_protocol :> JStr(S_SCSI)))

Ran(exit, out) == [started |-> TRUE, exit |-> exit, out |-> out]
NotStarted == [started |-> FALSE, exit |-> 0, out |-> Garbage]

\* {"MODEL_NAME":"M","USER_CAPACITY":{"BYTES":500},"DEVICE":{"PROTOCOL":"ATA"}}
InfoCapitals ==
    JObject(<< << Capitals(S_model_name), JStr(S_M) >>,
               << Capitals(S_user_capacity),
                  JObject(<< << Capitals(S_bytes), JNumber(500, TRUE) >> >>) >>,
               << Capitals(S_device),
                  JObject(<< << Capitals(S_protocol), JStr(S_ATA) >> >>) >> >>)
\* {"MODEL_FAMILY":5,"DEVICE":5}
InfoCapitalsBad ==
    JObject(<< << Capitals(S_model_family), JNumber(5, TRUE) >>,
               << Capitals(S_device), JNumber(5, TRUE) >> >>)

InfoProcs ==
    { Ran(0, Json(JObj(InfoAta))), Ran(0, Json(JObj(InfoScsi))),
      Ran(2, Json(JObj(InfoAta))), Ran(1, Garbage), Ran(0, Garbage) }
ProtoProcs ==
    { Ran(0, Json(JObj(InfoAta))), Ran(0, Json(JObj(InfoScsi))),
      Ran(4, Json(JObj(InfoAta))), Ran(1, Garbage) }
\* the follow-up queries answered with keys in capitals
CapitalsProcs == { Ran(0, JsonText(InfoCapitals)), Ran(0, JsonText(InfoCapitalsBad)) }

\* the element of "devices" for a device, as a text
ScanEntry(name, typ, openError) ==
    JObject(<< << S_name, JStr(name) >>, << S_type, JStr(typ) >> >> \o
            (IF openError = <<>> THEN <<>>
             ELSE << << S_open_error, JStr(openError) >> >>))
\* the same with its keys in capitals
ScanEntryCapitals(name, typ, openError) ==
    JObject(<< << Capitals(S_name), JStr(name) >>, << Capitals(S_type), JStr(typ) >> >> \o
            (IF openError = <<>> THEN <<>>
             ELSE << << Capitals(S_open_error), JStr(openError) >> >>))

\* a scan entry with the behaviour of the tool in its follow-up queries
EntryChoices ==
    { [entry |-> ScanEntry(n, t, S_denied), info |-> NotStarted, proto |-> NotStarted] :
        n \in {S_dev_sda, S_dev_bus_0}, t \in {S_sat, S_megaraid_0, S_sat_megaraid_12} }
    \cup
    { [entry |-> ScanEntry(n, S_sat, <<>>), info |-> i, proto |-> NotStarted] :
        n \in {S_dev_sda, S_dev_bus_0}, i \in InfoProcs }
    \cup
    { [entry |-> ScanEntry(n, t, <<>>), info |-> i, proto |-> p] :
        n \in {S_dev_sda, S_dev_bus_0}, t \in {S_megaraid_0, S_sat_megaraid_12},
        i \in InfoProcs, p \in ProtoProcs }
    \cup
    { [entry |-> ScanEntryCapitals(S_dev_sda, S_sat, S_denied),
       info |-> NotStarted, proto |-> NotStarted] }
    \cup
    { [entry |-> ScanEntryCapitals(S_dev_sda, t, <<>>), info |-> i, proto |-> i] :
        t \in {S_sat, S_megaraid_0}, i \in CapitalsProcs }

ScanExits == { 0, 1, 2 }

InitDiscover ==
    /\ RestInit
    /\ \E n \in 0..MaxScanEntries :
         \E es \in [1..n -> EntryChoices] :
            \/ \E e \in ScanExits :
                  call = [NoCall EXCEPT !.in =
                     [ scan |-> Ran(e, JsonText(JObject(<< << S_devices,
                                    JArr([i \in 1..n |-> es[i].entry]) >> >>))),
                       follows |-> [i \in 1..n |-> [info |-> es[i].info,
                                                    proto |-> es[i].proto]] ]]
            \/ /\ n = 0
               /\ \E p \in { NotStarted, Ran(0, Garbage), Ran(1, Garbage) } :
                     call = [NoCall EXCEPT !.in = [scan |-> p, follows |-> <<>>]]

\* devices = getDrives()   (line 557)
Discover ==
    /\ ~call.done
    /\ LET registry == getDrives(call.in.scan, call.in.follows)
       IN  /\ devices' = registry
           /\ call' = [op |-> "discover", in |-> call.in, out |-> registry, done |-> TRUE]
    /\ UNCHANGED << metrics, mutex, mainPc, inCollect, todo, passNo, tickerC, fired, hist >>

NextDiscover == Discover

SpecDiscover == InitDiscover /\ [][NextDiscover]_vars

Discovered == call.op = "discover" /\ call.done

\* the tool's run with an exit code 2, 4 or 6 and well-formed JSON replaced
\* by the same run with exit code 0
AsExitZero(proc) ==
    IF proc.started /\ proc.exit \in {2, 4, 6} /\ proc.out.valid
    THEN [proc EXCEPT !.exit = 0] ELSE proc

\* C5: a scan or a per-device info query that exits with 2, 4 or 6 and
\* returns well-formed JSON is treated exactly as one that exits with 0:
\* the registry is the one discovery builds when those runs exit with 0.
C5_UsableExitCodes ==
    Discovered =>
        call.out = getDrives(AsExitZero(call.in.scan),
                             [i \in DOMAIN call.in.follows |->
                                 [info  |-> AsExitZero(call.in.follows[i].info),
                                  proto |-> AsExitZero(call.in.follows[i].proto)]])

\* the entries of the scan, when the scan ran and was parsed
EntriesOf(in) ==
    IF in.scan.out.valid
    THEN Elements(Unmarshal(in.scan.out, ScanResultType).v[S_devices]) ELSE <<>>

\* the registry key discovery gives to a scan entry
RegistryKey(entry) ==
    IF MegaraidMatch(entry[S_type])
    THEN entry[S_name] \o Str_ \o getMegaraidDeviceID(entry[S_type])
    ELSE entry[S_name]

\* the info query of an entry succeeded: a usable run and parsed JSON
InfoSucceeded(proc) ==
    proc.started /\ proc.exit \in {0, 2, 4, 6} /\ proc.out.valid

\* C6: the registry holds a device for a scan entry only if the entry's
\* open_error is empty and its info query succeeded, plain or passthrough;
\* and every accessible entry whose info query succeeded is in the registry.
\* Stated for the runs in which the scan exits with 0 and no follow-up
\* query exits with 2, 4 or 6, where C5's defect plays no part.
C6_FailedQueryDropsDevice ==
    ( /\ Discovered
      /\ call.in.scan.started /\ call.in.scan.exit = 0 /\ call.in.scan.out.valid
      /\ \A i \in DOMAIN call.in.follows :
            /\ call.in.follows[i].info.exit \notin {2, 4, 6}
            /\ call.in.follows[i].proto.exit \notin {2, 4, 6} )
    => LET entries == EntriesOf(call.in)
           Admitted(i) == /\ entries[i][S_open_error] = <<>>
                          /\ InfoSucceeded(call.in.follows[i].info)
       IN  /\ \A k \in DOMAIN call.out :
                \E i \in DOMAIN entries : RegistryKey(entries[i]) = k /\ Admitted(i)
           /\ \A i \in DOMAIN entries :
                Admitted(i) => RegistryKey(entries[i]) \in DOMAIN call.out

-----------------------------------------------------------------------------
(* The running exporter: main's loop, the ticker and collect *)

MaxTicks == 3

\* capacity of the channel time.NewTicker makes (line 570)
TickerCap == 1

labelNames == << <<"d","r","i","v","e">>, S_type, S_model_family, S_model_name,
                 S_serial_number, S_user_capacity >>
\* "sat", "usbjmicron", "usbprolific", "usbsunplus"
satTypes ==
    << S_sat, <<"u","s","b","j","m","i","c","r","o","n">>,
       <<"u","s","b","p","r","o","l","i","f","i","c">>,
       <<"u","s","b","s","u","n","p","l","u","s">> >>
\* "nvme", "sntasmedia", "sntjmicron", "sntrealtek"
nvmeTypes ==
    << S_nvme, <<"s","n","t","a","s","m","e","d","i","a">>,
       <<"s","n","t","j","m","i","c","r","o","n">>,
       <<"s","n","t","r","e","a","l","t","e","k">> >>
scsiTypes == << S_scsi >>

\* the dispatch of lines 240-250: the extractor of a device, "none" for the
\* `continue` of line 249
FamilyOf(device) ==
    IF device.MegaraidID # <<>> THEN "megaraid"
    ELSE IF contains(satTypes, device.Type) THEN "sat"
    ELSE IF contains(nvmeTypes, device.Type) THEN "nvme"
    ELSE IF contains(scsiTypes, device.Type) THEN "scsi"
    ELSE "none"

\* the label values of lines 270-277, in the order of labelNames
LabelsOf(device) ==
    << sanitizeLabelValue(device.Name), device.Type, device.ModelFamily,
       device.ModelName, device.SerialNumber, device.UserCapacity >>

\* `_, exists := metrics[metricName]` (line 258)
SeriesExists(ms, metricName) == metricName \in DOMAIN ms

\* the names the metrics library accepts (checked by the registration of
\* line 267): a letter, '_' or ':', then letters, digits, '_' or ':'
IsValidMetricName(name) ==
    LET First(c) == IsLetter(c) \/ c \in {"_", ":"}
    IN  /\ name # <<>>
        /\ First(name[1])
        /\ \A i \in 1..Len(name) : First(name[i]) \/ IsDigit(name[i])

\* metrics[metricName] = prometheus.NewGaugeVec(...)  (lines 259-266): the
\* new series, with the key as help text and no value yet
NewGaugeVec(ms, key) ==
    MapPut(ms, MetricNameOf(key), [help |-> key, labels |-> labelNames, vals |-> EmptyMap])

\* prometheus.MustRegister (line 267) on the default registry reg (metric
\* name -> help text): it panics on a name the library does not accept and
\* on a name that is registered already
MustRegister(reg, metricName, key) ==
    IF ~IsValidMetricName(metricName) \/ metricName \in DOMAIN reg
    THEN [panic |-> TRUE, reg |-> reg]
    ELSE [panic |-> FALSE, reg |-> MapPut(reg, metricName, key)]

\* metrics[metricName].With(labels).Set(value)  (lines 269-277)
SetGauge(ms, device, key, value) ==
    LET metricName == MetricNameOf(key)
    IN  MapPut(ms, metricName,
               [ms[metricName] EXCEPT !.vals = MapPut(@, LabelsOf(device), value)])

\* a tick sent to a channel that queues every tick
sendTimeQueues(c, t) == Append(c, t)

\* the ticker's send (time.NewTicker, line 570): a tick is put in the
\* channel if there is room and dropped otherwise
sendTime(c, t) == IF Len(c) < TickerCap THEN Append(c, t) ELSE c

\* where main stands after `go collect()` in place of line 574
AfterCallAsGoroutine == "wait"

\* where main stands after the call of line 574: inside collect, until it returns
AfterCall == "in_collect"

\* the devices left to visit after the `continue` of lines 249 and 253
AfterSkip(left, d) == left \ {d}

\* ---- what the tool answers during a pass ----

S_ata == <<"a","t","a">>
S_PowerOn  == <<"P","o","w","e","r","-","O","n">>
S_Power_On == <<"P","o","w","e","r","_","O","n">>
S_TPercent == <<"T","%">>
S_minus5 == <<"-","5">>

PassTable(n1, v1, raw1) ==
    JObj((S_name :> JStr(n1)) @@ (S_value :> JNum(v1)) @@
         (S_raw :> JObj(S_string :> JStr(raw1))))

\* {"ata_smart_attributes":{"table":[{"name":"Power-On","value":100,"raw":{"string":"5"}}]},
\*  "smart_status":{"passed":true}}
SatDocA ==
    (S_ata_smart_attributes :> JObj(S_table :> JArr(<< PassTable(S_PowerOn, 100, S_5) >>))) @@
    (S_smart_status :> JObj(S_passed :> JBool(TRUE))) @@
    (S_device :> JObj(S_protocol :> JStr(S_ATA)))

\* a table with two names that sanitize to one metric name, health failed
SatDocB ==
    (S_ata_smart_attributes :> JObj(S_table :> JArr(
        << PassTable(S_PowerOn, 99, S_48h30m), PassTable(S_Power_On, 7, S_48h30m) >>))) @@
    (S_smart_status :> JObj(S_passed :> JBool(FALSE))) @@
    (S_device :> JObj(S_protocol :> JStr(S_ATA)))

\* a table whose attribute name holds a character that stays in the metric
\* name and that the metrics library does not accept
SatDocC ==
    (S_ata_smart_attributes :> JObj(S_table :> JArr(<< PassTable(S_TPercent, 1, S_minus5) >>))) @@
    (S_smart_status :> JObj(S_passed :> JBool(TRUE))) @@
    (S_device :> JObj(S_protocol :> JStr(S_ATA)))

NvmeDoc(t) ==
    (S_nvme_smart_health_information_log :> JObj(S_temperature :> JNum(t))) @@
    (S_smart_status :> JObj(S_passed :> JBool(TRUE)))

ScsiDoc(t) ==
    (S_temperature :> JObj(S_current :> JNum(t))) @@
    (S_smart_status :> JObj(S_passed :> JBool(TRUE))) @@
    (S_device :> JObj(S_protocol :> JStr(S_SCSI)))

\* the behaviours of the tool a pass can meet when it queries a device
PassProcs(family) ==
    CASE family = "sat" ->
           { Ran(0, Json(JObj(SatDocA))), Ran(4, Json(JObj(SatDocB))),
             Ran(0, Json(JObj(SatDocC))), Ran(1, Garbage) }
      [] family = "nvme" ->
           { Ran(0, Json(JObj(NvmeDoc(30)))), Ran(2, Json(JObj(NvmeDoc(31)))), Ran(1, Garbage) }
      [] family = "scsi" ->
           { Ran(0, Json(JObj(ScsiDoc(30)))), Ran(0, Json(JObj(ScsiDoc(31)))), Ran(0, Garbage) }
      [] family = "megaraid" ->
           { Ran(0, Json(JObj(ScsiDoc(30)))), Ran(6, Json(JObj(SatDocA))), NotStarted }

\* ---- the registries the exporter starts with ----

ScanOf(entries) ==
    Ran(0, JsonText(JObject(<< << S_devices, JArr(entries) >> >>)))
InfoOk(doc) == [info |-> Ran(0, Json(JObj(doc))), proto |-> Ran(0, Json(JObj(doc)))]

\* a SAT disk and a SCSI disk behind a RAID controller
RegistrySatRaid ==
    getDrives(ScanOf(<< ScanEntry(S_dev_sda, S_sat, <<>>),
                        ScanEntry(S_dev_bus_0, S_megaraid_0, <<>>) >>),
              << InfoOk(InfoAta), InfoOk(InfoScsi) >>)

\* an NVMe disk and a SCSI disk
RegistryNvmeScsi ==
    getDrives(ScanOf(<< ScanEntry(S_dev_sda, S_nvme, <<>>),
                        ScanEntry(S_dev_bus_0, S_scsi, <<>>) >>),
              << InfoOk(InfoAta), InfoOk(InfoScsi) >>)

\* a disk of a type no extractor serves, and a SAT disk
RegistryAtaSat ==
    getDrives(ScanOf(<< ScanEntry(S_dev_sda, S_ata, <<>>),
                        ScanEntry(S_dev_bus_0, S_sat, <<>>) >>),
              << InfoOk(InfoAta), InfoOk(InfoAta) >>)

Registries == { RegistrySatRaid, RegistryNvmeScsi, RegistryAtaSat }

NoHist ==
    [ pass      |-> EmptyMap,  \* this pass: device key -> what its extractor returned
      startTick |-> 0,         \* the tick that started the running or last pass, 0: none
      recvAt    |-> 0,         \* number of ticks fired when main last received a tick
      prevRecv  |-> 0,         \* the same, one receive earlier
      startAt   |-> 0,         \* number of ticks fired when the pass was called
      endAt     |-> 0,         \* number of ticks fired when the last pass returned
      registered |-> EmptyMap, \* the default registry: metric name -> help text
      seen      |-> {} ]       \* the metric names of the keys the passes came to

\* the frame of a call of collect: where it stands ("lock": at line 232,
\* "body": at the range of line 235, "publish": at the range of line 256,
\* "set": at line 269 after a registration) and its locals
Frame(pc, dev, attrs, keys, key) ==
    [ pc    |-> pc,
      dev   |-> dev,     \* `name`: the registry key of the device in hand
      attrs |-> attrs,   \* `attrs`: what the extractor returned for it
      keys  |-> keys,    \* the keys of attrs the range has still to visit
      key   |-> key ]    \* `key`: the key in hand

AtLock  == Frame("lock", <<>>, EmptyMap, {}, <<>>)
AtRange == Frame("body", <<>>, EmptyMap, {}, <<>>)

\* main, at line 573: discovery is done, the ticker runs, no pass yet
Init ==
    /\ devices \in Registries
    /\ metrics = EmptyMap
    /\ mutex = 0
    /\ mainPc = "call"
    /\ inCollect = EmptyMap
    /\ todo = {}
    /\ passNo = 0
    /\ tickerC = <<>>
    /\ fired = 0
    /\ hist = NoHist
    /\ call = NoCall

\* the ticker fires (line 570)
Tick ==
    /\ mainPc # "panicked"
    /\ fired < MaxTicks
    /\ fired' = fired + 1
    /\ tickerC' = sendTime(tickerC, fired + 1)
    /\ UNCHANGED << devices, metrics, mutex, mainPc, inCollect, todo, passNo, hist, call >>

\* main calls collect() (line 574)
CallCollect ==
    /\ mainPc = "call"
    /\ passNo' = passNo + 1
    /\ inCollect' = MapPut(inCollect, passNo + 1, AtLock)
    /\ mainPc' = AfterCall
    /\ hist' = [hist EXCEPT !.startAt = fired]
    /\ UNCHANGED << devices, metrics, mutex, todo, tickerC, fired, call >>

\* mutex.Lock() (line 232), and the range of line 235 begins
Lock(p) ==
    /\ p \in DOMAIN inCollect
    /\ inCollect[p].pc = "lock"
    /\ mutex = 0
    /\ mutex' = p
    /\ inCollect' = [inCollect EXCEPT ![p] = AtRange]
    /\ todo' = DOMAIN devices
    /\ hist' = [hist EXCEPT !.pass = EmptyMap]
    /\ UNCHANGED << devices, metrics, mainPc, passNo, tickerC, fired, call >>

\* the head of one turn of the loop on device d (lines 235-255): the
\* dispatch, and the extractor's call of the tool has returned
VisitDevice(p, d) ==
    /\ p \in DOMAIN inCollect
    /\ inCollect[p].pc = "body"
    /\ d \in todo
    /\ LET device == devices[d]
           family == FamilyOf(device)
       IN  IF family = "none"
           THEN /\ todo' = AfterSkip(todo, d)
                /\ UNCHANGED << inCollect, hist >>
           ELSE \E proc \in PassProcs(family) :
                \E attrs \in Extract(family, proc) :
                   /\ hist' = [hist EXCEPT !.pass = MapPut(@, d, attrs)]
                   /\ IF attrs.nil
                      THEN /\ todo' = AfterSkip(todo, d)
                           /\ UNCHANGED inCollect
                      ELSE /\ todo' = todo \ {d}
                           /\ inCollect' = [inCollect EXCEPT ![p] =
                                 IF DOMAIN attrs.m = {} THEN AtRange
                                 ELSE Frame("publish", d, attrs.m, DOMAIN attrs.m, <<>>)]
    /\ UNCHANGED << devices, metrics, mutex, mainPc, passNo, tickerC, fired, call >>

\* the range of line 256 comes to key k, whose metric name has no series:
\* the series is made, stored and registered (lines 257-267)
RegisterSeries(p, k) ==
    /\ p \in DOMAIN inCollect
    /\ inCollect[p].pc = "publish"
    /\ k \in inCollect[p].keys
    /\ ~SeriesExists(metrics, MetricNameOf(k))
    /\ LET r == MustRegister(hist.registered, MetricNameOf(k), k)
       IN  /\ ~r.panic
           /\ hist' = [hist EXCEPT !.registered = r.reg, !.seen = @ \cup { MetricNameOf(k) }]
    /\ metrics' = NewGaugeVec(metrics, k)
    /\ inCollect' = [inCollect EXCEPT ![p].pc = "set", ![p].key = k]
    /\ UNCHANGED << devices, mutex, mainPc, todo, passNo, tickerC, fired, call >>

\* the same when the registration panics (line 267): the series is stored,
\* the deferred mutex.Unlock() (line 233) runs, and the process ends
RegisterPanics(p, k) ==
    /\ p \in DOMAIN inCollect
    /\ inCollect[p].pc = "publish"
    /\ k \in inCollect[p].keys
    /\ ~SeriesExists(metrics, MetricNameOf(k))
    /\ MustRegister(hist.registered, MetricNameOf(k), k).panic
    /\ metrics' = NewGaugeVec(metrics, k)
    /\ hist' = [hist EXCEPT !.seen = @ \cup { MetricNameOf(k) }]
    /\ mutex' = 0
    /\ inCollect' = EmptyMap
    /\ mainPc' = "panicked"
    /\ UNCHANGED << devices, todo, passNo, tickerC, fired, call >>

\* the value of key k is set for the device in hand (lines 269-277): after
\* the registration of k, or when the range comes to a key whose metric
\* name has a series
SetValue(p, k) ==
    /\ p \in DOMAIN inCollect
    /\ LET f == inCollect[p]
       IN  /\ \/ f.pc = "set" /\ f.key = k
              \/ f.pc = "publish" /\ k \in f.keys /\ SeriesExists(metrics, MetricNameOf(k))
           /\ metrics' = SetGauge(metrics, devices[f.dev], k, f.attrs[k])
           /\ inCollect' = [inCollect EXCEPT ![p] =
                 IF f.keys \ {k} = {} THEN AtRange
                 ELSE Frame("publish", f.dev, f.attrs, f.keys \ {k}, <<>>)]
    /\ hist' = [hist EXCEPT !.seen = @ \cup { MetricNameOf(k) }]
    /\ UNCHANGED << devices, mutex, mainPc, todo, passNo, tickerC, fired, call >>

\* the range is over: the deferred mutex.Unlock() (line 233) and the return
Return(p) ==
    /\ p \in DOMAIN inCollect
    /\ inCollect[p].pc = "body"
    /\ todo = {}
    /\ mutex' = 0
    /\ inCollect' = [q \in (DOMAIN inCollect) \ {p} |-> inCollect[q]]
    /\ mainPc' = IF mainPc = "in_collect" THEN "wait" ELSE mainPc
    /\ hist' = [hist EXCEPT !.endAt = fired]
    /\ UNCHANGED << devices, metrics, todo, passNo, tickerC, fired, call >>

\* <-ticker.C (line 575)
ReceiveTick ==
    /\ mainPc = "wait"
    /\ tickerC # <<>>
    /\ tickerC' = Tail(tickerC)
    /\ mainPc' = "call"
    /\ hist' = [hist EXCEPT !.startTick = Head(tickerC), !.recvAt = fired,
                            !.prevRecv = hist.recvAt]
    /\ UNCHANGED << devices, metrics, mutex, inCollect, todo, passNo, fired, call >>

\* the keys a pass can come to next
KeysInHand(p) == inCollect[p].keys

Next ==
    \/ Tick
    \/ CallCollect
    \/ \E p \in DOMAIN inCollect : Lock(p)
    \/ \E p \in DOMAIN inCollect : \E d \in todo : VisitDevice(p, d)
    \/ \E p \in DOMAIN inCollect : \E k \in KeysInHand(p) : RegisterSeries(p, k)
    \/ \E p \in DOMAIN inCollect : \E k \in KeysInHand(p) : RegisterPanics(p, k)
    \/ \E p \in DOMAIN inCollect : \E k \in KeysInHand(p) : SetValue(p, k)
    \/ \E p \in DOMAIN inCollect : Return(p)
    \/ ReceiveTick

Spec == Init /\ [][Next]_vars

\* the passes inside collect(), and those executing its body
PassesInside == DOMAIN inCollect
PassesInBody == { p \in DOMAIN inCollect : inCollect[p].pc # "lock" }

\* C1: two collection passes never execute at the same time: at most one
\* pass is inside collect(), also while a pass outlasts the tick interval.
C1_OnePassAtATime ==
    /\ Cardinality(PassesInside) <= 1
    /\ Cardinality(PassesInBody) <= 1
    /\ mutex # 0 => PassesInBody = { mutex }

\* a pass is in the body of collect and two ticks have fired since its call
C1_Witness ==
    /\ PassesInBody # {}
    /\ fired - hist.startAt >= 2

\* C2 as the spec states it: a tick that fires while a pass runs is never
\* queued: the tick on which the next pass starts fired after the end of
\* the pass before it.
C2_AsStated ==
    (mainPc = "call" /\ hist.startTick > 0) => hist.startTick > hist.endAt

\* C2, amended: the ticker's channel keeps one tick: a tick that fires
\* while a pass runs is kept if the channel is empty and dropped otherwise,
\* so at most one tick is ever queued.  After an overrunning pass ends the
\* next pass starts on the first tick that fired during that pass (one
\* catch-up pass); the later ticks of that pass are dropped and start no
\* pass: every pass but the first takes a tick of its own.
C2_OneTickRetained ==
    /\ Len(tickerC) <= 1
    /\ tickerC # <<>> => Head(tickerC) = hist.recvAt + 1
    /\ (mainPc = "call" /\ hist.startTick > 0) =>
          /\ hist.startTick = hist.prevRecv + 1
          /\ hist.endAt > hist.prevRecv => hist.startTick <= hist.endAt
    /\ passNo + Len(tickerC) <= 1 + fired

\* a pass outlasted two ticks, and the next pass is about to start on the
\* first of them
C2_Witness ==
    /\ mainPc = "call" /\ hist.startTick > 0
    /\ hist.endAt >= hist.startTick + 1

\* the values published for a label tuple: metric name -> value
ValuesOf(ms, labels) ==
    [ n \in { x \in DOMAIN ms : labels \in DOMAIN ms[x].vals } |-> ms[n].vals[labels] ]

\* every attribute of the set r has been published for device d in ms: its
\* series exists and holds, for d's labels, the value of an attribute of r
\* with that metric name (the attribute's own value when it is the only one)
AllPublished(ms, d, r) ==
    \A k \in DOMAIN r.m :
        /\ MetricNameOf(k) \in DOMAIN ms
        /\ LabelsOf(devices[d]) \in DOMAIN ms[MetricNameOf(k)].vals
        /\ ms[MetricNameOf(k)].vals[LabelsOf(devices[d])] \in
              { r.m[j] : j \in { x \in DOMAIN r.m : MetricNameOf(x) = MetricNameOf(k) } }

\* the pass that holds the mutex stops holding it
PassEnds == mutex # 0 /\ mutex' = 0

C4_Step ==
    \* the values of a device change only after its extractor has, in this
    \* pass, returned an attribute set
    /\ \A d \in DOMAIN devices :
          ValuesOf(metrics', LabelsOf(devices[d])) # ValuesOf(metrics, LabelsOf(devices[d]))
             => d \in DOMAIN hist.pass /\ ~hist.pass[d].nil
    \* a result of nil does not end the pass
    /\ (\E d \in DOMAIN devices :
           d \in DOMAIN hist'.pass /\ d \notin DOMAIN hist.pass /\ hist'.pass[d].nil)
          => mutex' = mutex /\ mainPc' = mainPc
    \* when the pass ends it has visited every device an extractor serves
    \* and published all that was extracted
    /\ PassEnds =>
          \A d \in DOMAIN devices :
             FamilyOf(devices[d]) # "none" =>
                /\ d \in DOMAIN hist.pass
                /\ ~hist.pass[d].nil => AllPublished(metrics', d, hist.pass[d])

\* C4: in a pass, a device whose extraction yields no result has nothing
\* published and keeps the values of earlier passes, while every other
\* device of the registry has all its extracted attributes published in
\* that pass.
C4_FailureIsolated == [][C4_Step]_vars

\* the same for the passes that end by returning
C4_WhenPassReturns == [][mainPc' # "panicked" => C4_Step]_vars

\* the registrations agree with what the passes came to: every metric name
\* a key was seen for is registered (once: the registry holds a name once)
\* and no other name is, and the series has the help text of that
\* registration and the label schema
C11_Registered ==
    /\ DOMAIN hist.registered = hist.seen
    /\ DOMAIN metrics = hist.seen
    /\ \A n \in DOMAIN metrics :
          /\ metrics[n].help = hist.registered[n]
          /\ MetricNameOf(metrics[n].help) = n
          /\ metrics[n].labels = labelNames

C11_Step ==
    \* a registered series stays, with its help text and label schema
    /\ \A n \in DOMAIN hist.registered :
          /\ n \in DOMAIN hist'.registered
          /\ hist'.registered[n] = hist.registered[n]
          /\ n \in DOMAIN metrics'
          /\ metrics'[n].help = metrics[n].help
          /\ metrics'[n].labels = metrics[n].labels
    \* a name is registered by the step that first comes to a key for it
    /\ DOMAIN hist'.registered \ DOMAIN hist.registered = hist'.seen \ hist.seen
    \* a value that is new or changed is the value of a key of the device
    \* in hand, at that device's label tuple, whatever the value was before
    /\ \A n \in DOMAIN metrics' : \A l \in DOMAIN metrics'[n].vals :
          (\/ n \notin DOMAIN metrics
           \/ l \notin DOMAIN metrics[n].vals
           \/ metrics[n].vals[l] # metrics'[n].vals[l])
          => \E p \in DOMAIN inCollect :
                LET f == inCollect[p]
                IN  /\ f.pc \in {"publish", "set"}
                    /\ l = LabelsOf(devices[f.dev])
                    /\ \E k \in f.keys :
                          MetricNameOf(k) = n /\ metrics'[n].vals[l] = f.attrs[k]
    \* and no value is taken away
    /\ \A n \in DOMAIN metrics : \A l \in DOMAIN metrics[n].vals :
          n \in DOMAIN metrics' /\ l \in DOMAIN metrics'[n].vals

\* C11: after any sequence of passes each sanitized metric name has been
\* registered exactly once, in the pass that first saw a key mapping to it,
\* and keeps the help text and label schema of that registration; a value
\* published for a device replaces the value the series had for the
\* device's label tuple and is not added to it.
C11_RegisteredOnce == []C11_Registered /\ [][C11_Step]_vars

\* the same while no registration has failed
C11_WhileRunning ==
    [](mainPc # "panicked" => C11_Registered) /\ [][mainPc' # "panicked" => C11_Step]_vars

=============================================================================
